---- MODULE Spec2Model ----
(***************************************************************************)
(* Kudos Machine: the rate-limit-aware action loops.                       *)
(*   - giveKudos / giveKudosToAllFeeds   (browser surface, kudos.ts)       *)
(*   - giveKudosOnCurrentFeed / giveKudosMobile (mobile surface,           *)
(*     mobile/emulator-kudos.ts)                                           *)
(*   - main (index.ts), acceptFollowRequests (follows.ts),                 *)
(*     appendRunLog / getDailyTotal (logger.ts)                            *)
(* Collaborators (page, device, file system) are the environment: each of  *)
(* their calls is a nondeterministic choice over the results they can give.*)
(***************************************************************************)
EXTENDS Integers, Sequences, FiniteSets, TLC

\* ---------------------------------------------------------------- bounds
\* unfilled elements a feed page can show in the small worlds
MaxBacklog == 2
\* feeds (clubs) handed to giveKudosToAllFeeds
MaxFeeds == 2
\* configured MAX_KUDOS_PER_RUN values are 1..MaxCap, or unset (Infinity)
MaxCap == 2
\* in the large world the cap ranges up to MAX_KUDOS_PER_CLUB + CapSlack
CapSlack == 1

\* ------------------------------------------------------ program constants
MAX_KUDOS_PER_CLUB == 40
\* the literal 3 of `result.errors >= 3`
ERROR_THRESHOLD == 3
\* Number.POSITIVE_INFINITY, as a sentinel: GEq, LEqZero and Minus below give
\* it the arithmetic of the IEEE value (never reached, unchanged by minus)
Infinity == -1

\* a comparison that lets the count pass the cap by one
GreaterThan(a, m) == m # Infinity /\ a > m

GEq(a, m) == m # Infinity /\ a >= m
LEqZero(m) == m # Infinity /\ m <= 0
Minus(m, g) == IF m = Infinity THEN Infinity ELSE m - g

VARIABLES
  entry,          \* the exported function / script this run started in
  cfg,            \* Config: maxKudosPerRun, dryRun, mobileOnly, skipMobile
  env,            \* what the environment can show: backlogs a feed may have
  pc,             \* position of the single thread of control
  session,        \* browser session open?
  nFeeds,         \* feedsToProcess.length
  feedIdx,        \* index of the for-loop over feedsToProcess (1-based)
  remainingKudos, \* giveKudosToAllFeeds.remainingKudos
  totalResult,    \* giveKudosToAllFeeds.totalResult
  maxKudos,       \* the maxKudos parameter of the running loop invocation
  result,         \* giveKudos.result
  unfilled,       \* page: number of svg[data-testid="unfilled_kudos"]
  page,           \* page: the unfilled kudos elements of the feed, in DOM order
  target,         \* history: the element the last click of the loop acted on
  initialCount,   \* giveKudos.initialCount
  rejStreak,      \* history: silent rejections since the last success
  excStreak,      \* history: thrown errors since the last success
  prim,           \* the action primitive the last step invoked, if any
  exitReason,     \* the branch by which the running loop was left
  browserResult,  \* main.browserResult
  exitCode,       \* process.exitCode
  state,          \* FeedKudosState of giveKudosMobile
  noNewButtonsCount,        \* giveKudosOnCurrentFeed local
  consecutiveDumpFailures,  \* giveKudosOnCurrentFeed local
  buttons,        \* the buttons of the current screen, in snapshot order
  btnIdx,         \* position of the for-loop over buttons (1-based)
  counted,        \* history: position keys whose tap incremented given in this batch
  stillUnfilled,  \* the elements the verification snapshot reports still unfilled
  clubNames,      \* giveKudosMobile.clubNames
  clubIndex,      \* giveKudosMobile.clubIndex (0-based, as in the source)
  processedClubs, \* giveKudosMobile.processedClubs
  inClub,         \* TRUE in the club loop, FALSE in the no-clubs fallback
  contentLeft,    \* environment: screens with new buttons still to come
  faultsLeft,     \* environment: collaborator failures still to come
  mobileResult,   \* the MobileKudosResult returned to main
  logFile,        \* runs.json: absent, unreadable, or the array it holds
  logs,           \* appendRunLog.logs of the last call
  log,            \* the RunLog object the last call was given, as it left it
  dailyTotal,     \* the value the last call of appendRunLog returned
  summary,        \* the counts main printed in its summary
  failed,         \* history: a click of the giveKudos loop now running failed
  resetDue,       \* history: the mobile count reached a multiple of the session size
                  \* and the emulator has not been restarted since
  threw           \* history: a kudos click, a tap or the set-up of the emulator failed
                  \* with an error during this run

browserVars == <<session, nFeeds, feedIdx, remainingKudos, totalResult, maxKudos,
                 result, unfilled, page, target, initialCount, rejStreak, excStreak,
                 exitReason, browserResult>>
mobileVars == <<state, noNewButtonsCount, consecutiveDumpFailures, buttons, btnIdx,
                counted, stillUnfilled, clubNames, clubIndex, processedClubs, inClub,
                contentLeft, faultsLeft, mobileResult>>
logVars == <<logFile, logs, log, dailyTotal>>
vars == <<entry, cfg, env, logVars, threw, summary, resetDue, failed, pc, prim, exitCode, browserVars, mobileVars>>

ZeroResult == [given |-> 0, errors |-> 0, rateLimited |-> FALSE, hitClubLimit |-> FALSE]
ZeroSurface == [given |-> 0, errors |-> 0, rateLimited |-> FALSE]
\* nothing printed yet
NoSummary == [printed |-> FALSE, given |-> 0, errors |-> 0, rateLimited |-> FALSE]

\* --------------------------------------------------------------- loadConfig
Caps(world) ==
  IF world = "large"
    THEN ((MAX_KUDOS_PER_CLUB - 1) .. (MAX_KUDOS_PER_CLUB + CapSlack)) \cup {Infinity}
    ELSE (1 .. MaxCap) \cup {Infinity}

Backlogs(world) ==
  IF world = "large"
    THEN {MAX_KUDOS_PER_CLUB - 1, MAX_KUDOS_PER_CLUB, MAX_KUDOS_PER_CLUB + 1}
    ELSE 0 .. MaxBacklog

\* injective sequences of at most n club names: the shuffled lists
\* getClubsList can return
ClubListsUpTo(n) ==
  UNION { { sq \in [1 .. k -> 1 .. n] :
              \A i, j \in 1 .. k : i # j => sq[i] # sq[j] } : k \in 0 .. n }

loadConfig(world) ==
  [maxKudosPerRun : Caps(world), dryRun : BOOLEAN,
   mobileOnly : BOOLEAN, skipMobile : BOOLEAN]

InitBrowserVars ==
  /\ session = FALSE
  /\ nFeeds \in 1 .. MaxFeeds
  /\ feedIdx = 1
  /\ remainingKudos = cfg.maxKudosPerRun
  /\ totalResult = ZeroResult
  /\ maxKudos = cfg.maxKudosPerRun
  /\ result = ZeroResult
  /\ unfilled = 0
  /\ page = {}
  /\ target = 0
  /\ initialCount = 0
  /\ rejStreak = 0
  /\ excStreak = 0
  /\ exitReason = "none"
  /\ browserResult = ZeroSurface
  /\ threw = FALSE
  /\ failed = FALSE
  /\ summary = NoSummary

\* ---------------------------------------------------- giveKudosToAllFeeds
\* for-loop head, `if (remainingKudos <= 0) break`
FeedsBudgetStop ==
  /\ pc = "feeds"
  /\ feedIdx <= nFeeds
  /\ LEqZero(remainingKudos)
  /\ pc' = "feeds_done"
  /\ prim' = "none"
  /\ UNCHANGED <<entry, cfg, env, logVars, threw, summary, resetDue, failed, exitCode, browserVars, mobileVars>>

\* for-loop over feedsToProcess is finished
FeedsEnd ==
  /\ pc = "feeds"
  /\ feedIdx > nFeeds
  /\ pc' = "feeds_done"
  /\ prim' = "none"
  /\ UNCHANGED <<entry, cfg, env, logVars, threw, summary, resetDue, failed, exitCode, browserVars, mobileVars>>

\* the whole per-run budget, whatever was given before
FullBudget == cfg.maxKudosPerRun

\* the budget giveKudosToAllFeeds hands to giveKudos
BudgetForClub == remainingKudos

\* `giveKudos(page, clubId, remainingKudos, dryRun)`: the call, up to page.goto
CallGiveKudos ==
  /\ pc = "feeds"
  /\ feedIdx <= nFeeds
  /\ ~LEqZero(remainingKudos)
  /\ maxKudos' = BudgetForClub
  /\ result' = ZeroResult
  /\ rejStreak' = 0
  /\ excStreak' = 0
  /\ exitReason' = "none"
  /\ pc' = "goto"
  /\ prim' = "none"
  /\ UNCHANGED mobileVars
  /\ UNCHANGED <<entry, cfg, env, logVars, threw, summary, resetDue, failed, exitCode, session, nFeeds, feedIdx,
                 remainingKudos, totalResult, unfilled, page, target, initialCount, browserResult>>

\* ------------------------------------------------------------- giveKudos
\* the cookie consent banner, when visible, is dismissed with a click
DismissBanner(visible) == IF visible THEN "dismissBanner" ELSE "none"

\* page.goto succeeded, not the login page; scrollToLoadContent; initialCount
GotoLoaded ==
  /\ pc = "goto"
  /\ \E n \in env.backlogs :
       /\ unfilled' = n
       /\ page' = 1 .. n
       /\ initialCount' = n
  /\ target' = 0
  /\ pc' = "loop"
  /\ \E banner \in BOOLEAN : prim' = DismissBanner(banner)
  /\ UNCHANGED mobileVars
  /\ UNCHANGED <<entry, cfg, env, logVars, threw, summary, resetDue, failed, exitCode, session, nFeeds, feedIdx,
                 remainingKudos, totalResult, maxKudos, result, rejStreak,
                 excStreak, exitReason, browserResult>>

\* a connection close handled like a timeout
AfterTimeout(r) == r

\* `result.rateLimited = true; return result` of the connection-closed branch
AfterConnectionClosed(r) == [r EXCEPT !.rateLimited = TRUE]

\* page.goto threw ERR_CONNECTION / net::
GotoConnectionClosed ==
  /\ pc = "goto"
  /\ result' = AfterConnectionClosed(result)
  /\ exitReason' = "connectionClosed"
  /\ pc' = "ret"
  /\ prim' = "none"
  /\ UNCHANGED mobileVars
  /\ UNCHANGED <<entry, cfg, env, logVars, threw, summary, resetDue, failed, exitCode, session, nFeeds, feedIdx,
                 remainingKudos, totalResult, maxKudos, unfilled, page, target, initialCount,
                 rejStreak, excStreak, browserResult>>

\* page.goto threw a timeout
GotoTimeout ==
  /\ pc = "goto"
  /\ exitReason' = "navTimeout"
  /\ pc' = "ret"
  /\ prim' = "none"
  /\ UNCHANGED mobileVars
  /\ UNCHANGED <<entry, cfg, env, logVars, threw, summary, resetDue, failed, exitCode, session, nFeeds, feedIdx,
                 remainingKudos, totalResult, maxKudos, result, unfilled, page, target,
                 initialCount, rejStreak, excStreak, browserResult>>

\* page.goto threw anything else, or the page is the login page: giveKudos
\* throws, giveKudosToAllFeeds does not catch
GotoThrows ==
  /\ pc = "goto"
  /\ exitReason' = "thrown"
  /\ pc' = "thrown"
  /\ prim' = "none"
  /\ UNCHANGED mobileVars
  /\ UNCHANGED <<entry, cfg, env, logVars, threw, summary, resetDue, failed, exitCode, session, nFeeds, feedIdx,
                 remainingKudos, totalResult, maxKudos, result, unfilled, page, target,
                 initialCount, rejStreak, excStreak, browserResult>>

\* whether a click of the loop has failed, once this step is taken: the
\* history ends when giveKudos returns
FailedAfter(f) == IF pc' = "ret" THEN FALSE ELSE f

loopFrame == <<entry, cfg, env, logVars, threw, summary, resetDue, exitCode, session, nFeeds, feedIdx,
               remainingKudos, totalResult, maxKudos, browserResult>>

\* a cap one above the per-club limit
ClubCapPlusOne == MAX_KUDOS_PER_CLUB + 1

\* the per-club cap the loop compares result.given with
ClubCap == MAX_KUDOS_PER_CLUB

\* `if (result.given >= maxKudos) break`, else
\* `if (result.given >= MAX_KUDOS_PER_CLUB) { hitClubLimit = true; break }`
LoopLimit ==
  /\ pc = "loop"
  /\ GEq(result.given, maxKudos) \/ result.given >= ClubCap
  /\ IF GEq(result.given, maxKudos)
       THEN result' = result /\ exitReason' = "maxKudos"
       ELSE result' = [result EXCEPT !.hitClubLimit = TRUE] /\ exitReason' = "clubLimit"
  /\ pc' = "ret"
  /\ prim' = "none"
  /\ UNCHANGED mobileVars
  /\ UNCHANGED <<loopFrame, unfilled, page, target, initialCount, rejStreak, excStreak>>
  /\ failed' = FailedAfter(failed)

\* the three guards every iteration passes before it acts
CanAct ==
  /\ pc = "loop"
  /\ ~GEq(result.given, maxKudos)
  /\ ~(result.given >= ClubCap)

\* a test that gives up with one element still unfilled
NoneOrOneLeft(countBefore) == countBefore <= 1

\* `countBefore === 0`
NoneLeft(countBefore) == countBefore = 0

\* `if (countBefore === 0) break`
LoopNoMore ==
  /\ CanAct
  /\ NoneLeft(unfilled)
  /\ exitReason' = "exhausted"
  /\ pc' = "ret"
  /\ prim' = "none"
  /\ UNCHANGED mobileVars
  /\ UNCHANGED <<loopFrame, result, unfilled, page, target, initialCount, rejStreak, excStreak>>
  /\ failed' = FailedAfter(failed)

\* the kudos click
KudosClick == "click"

\* the primitive a dry-run iteration of giveKudos invokes
DryRunPrim == "none"

\* dry run: count, no click; stop at the initially observed total
LoopDryRun ==
  /\ CanAct
  /\ ~NoneLeft(unfilled)
  /\ cfg.dryRun
  /\ result' = [result EXCEPT !.given = @ + 1]
  /\ IF result.given + 1 >= initialCount
       THEN pc' = "ret" /\ exitReason' = "dryRunDone"
       ELSE pc' = "loop" /\ exitReason' = exitReason
  /\ prim' = DryRunPrim
  /\ UNCHANGED mobileVars
  /\ UNCHANGED <<loopFrame, unfilled, page, target, initialCount, rejStreak, excStreak>>
  /\ failed' = FailedAfter(failed)

\* a counter that a verified click leaves as it is
ErrorsKept(e) == e

\* what a verified click does to result.errors
ErrorsAfterSuccess(e) == 0

\* the last unfilled element of the snapshot
last(elements) == CHOOSE e \in elements : \A o \in elements : o <= e

\* `page.locator('svg[data-testid="unfilled_kudos"]').first()`
first(elements) == CHOOSE e \in elements : \A o \in elements : e <= o

\* click, poll: the count decreased
LoopClickSuccess ==
  /\ CanAct
  /\ ~NoneLeft(unfilled)
  /\ ~cfg.dryRun
  /\ target' = first(page)
  /\ page' = page \ {first(page)}
  /\ unfilled' = unfilled - 1
  /\ result' = [result EXCEPT !.given = @ + 1, !.errors = ErrorsAfterSuccess(@)]
  /\ rejStreak' = 0
  /\ excStreak' = 0
  /\ pc' = "loop"
  /\ prim' = "click"
  /\ UNCHANGED mobileVars
  /\ UNCHANGED <<loopFrame, initialCount, exitReason>>
  /\ failed' = FailedAfter(failed)

\* click, poll for 1s: the count did not decrease (silent rejection)
LoopClickRejected ==
  /\ CanAct
  /\ ~NoneLeft(unfilled)
  /\ ~cfg.dryRun
  /\ rejStreak' = rejStreak + 1
  /\ IF result.errors + 1 >= ERROR_THRESHOLD
       THEN /\ result' = [result EXCEPT !.errors = @ + 1, !.rateLimited = TRUE]
            /\ exitReason' = "rateLimited"
            /\ pc' = "ret"
       ELSE /\ result' = [result EXCEPT !.errors = @ + 1]
            /\ exitReason' = exitReason
            /\ pc' = "loop"
  /\ prim' = "click"
  /\ UNCHANGED mobileVars
  /\ target' = first(page)
  /\ UNCHANGED <<loopFrame, unfilled, page, initialCount, excStreak>>
  /\ failed' = FailedAfter(TRUE)

\* the click (or the poll) threw: the catch block
LoopClickError ==
  /\ CanAct
  /\ ~NoneLeft(unfilled)
  /\ ~cfg.dryRun
  /\ excStreak' = excStreak + 1
  /\ result' = [result EXCEPT !.errors = @ + 1]
  /\ IF result.errors + 1 >= ERROR_THRESHOLD
       THEN exitReason' = "errors" /\ pc' = "ret"
       ELSE exitReason' = exitReason /\ pc' = "loop"
  /\ prim' = "click"
  /\ threw' = TRUE
  /\ UNCHANGED mobileVars
  /\ UNCHANGED <<entry, cfg, env, logVars, summary, resetDue, exitCode, session, nFeeds, feedIdx,
                 remainingKudos, totalResult, maxKudos, browserResult, unfilled, page,
                 initialCount, rejStreak>>
  /\ target' = first(page)
  /\ failed' = FailedAfter(TRUE)

\* an enumeration that goes on whatever the loop returned
NeverStops(r) == FALSE

\* `if (result.rateLimited) break`
StopsEnumerating(r) == r.rateLimited

\* giveKudos returned: totals, remaining budget, stop when rate limited
FeedsAccumulate ==
  /\ pc = "ret"
  /\ totalResult' = [totalResult EXCEPT
                       !.given = @ + result.given,
                       !.errors = @ + result.errors,
                       !.rateLimited = @ \/ result.rateLimited]
  /\ remainingKudos' = Minus(remainingKudos, result.given)
  /\ IF StopsEnumerating(result)
       THEN pc' = "feeds_done" /\ feedIdx' = feedIdx
       ELSE pc' = "feeds" /\ feedIdx' = feedIdx + 1
  /\ prim' = "none"
  /\ UNCHANGED mobileVars
  /\ UNCHANGED <<entry, cfg, env, logVars, threw, summary, resetDue, failed, exitCode, session, nFeeds, maxKudos, result,
                 unfilled, page, target, initialCount, rejStreak, excStreak, exitReason,
                 browserResult>>


\* ================================================== acceptFollowRequests
ZeroFollowResult == [accepted |-> 0, errors |-> 0]

\* accept-follows.ts main: launchBrowser, then acceptFollowRequests up to the
\* navigation (result = { accepted: 0, errors: 0 }, getAthleteId succeeded)
FollowsStart ==
  /\ pc = "f_main"
  /\ session' = TRUE
  /\ result' = ZeroFollowResult
  /\ pc' = "f_goto"
  /\ prim' = "none"
  /\ UNCHANGED mobileVars
  /\ UNCHANGED <<entry, cfg, env, logVars, threw, summary, resetDue, failed, exitCode, nFeeds, feedIdx, remainingKudos,
                 totalResult, maxKudos, unfilled, page, target, initialCount, rejStreak,
                 excStreak, exitReason, browserResult>>

\* launchBrowser threw: catch, exit code 1, no session to close
FollowsLaunchThrows ==
  /\ pc = "f_main"
  /\ exitCode' = 1
  /\ pc' = "exit"
  /\ prim' = "none"
  /\ UNCHANGED <<entry, cfg, env, logVars, threw, summary, resetDue, failed, browserVars, mobileVars>>

followFrame == <<entry, cfg, env, logVars, threw, summary, resetDue, failed, exitCode, session, nFeeds, feedIdx,
                 remainingKudos, totalResult, maxKudos, exitReason, browserResult>>

\* page.goto threw ERR_CONNECTION / net:: : `return result`
AcceptConnectionClosed ==
  /\ pc = "f_goto"
  /\ pc' = "f_ret"
  /\ prim' = "none"
  /\ UNCHANGED mobileVars
  /\ UNCHANGED <<followFrame, result, unfilled, page, target, initialCount, rejStreak, excStreak>>

\* getAthleteId or page.goto threw, or the page is the login page
AcceptThrows ==
  /\ pc = "f_goto"
  /\ pc' = "f_thrown"
  /\ prim' = "none"
  /\ UNCHANGED mobileVars
  /\ UNCHANGED <<followFrame, result, unfilled, page, target, initialCount, rejStreak, excStreak>>

\* the page loaded: initialCount Accept buttons; none: `return result`
AcceptLoaded ==
  /\ pc = "f_goto"
  /\ \E n \in env.backlogs :
       /\ unfilled' = n
       /\ initialCount' = n
       /\ pc' = IF n = 0 THEN "f_ret" ELSE "f_loop"
  /\ \E banner \in BOOLEAN : prim' = DismissBanner(banner)
  /\ UNCHANGED mobileVars
  /\ UNCHANGED <<followFrame, result, page, target, rejStreak, excStreak>>

\* `if (countBefore === 0) break`
AcceptNoMore ==
  /\ pc = "f_loop"
  /\ unfilled = 0
  /\ pc' = "f_ret"
  /\ prim' = "none"
  /\ UNCHANGED mobileVars
  /\ UNCHANGED <<followFrame, result, unfilled, page, target, initialCount, rejStreak, excStreak>>

\* the primitive a dry-run iteration of acceptFollowRequests invokes
DryAcceptPrim == "none"

\* dry run: count, no click; stop at the initially observed total
AcceptDryRun ==
  /\ pc = "f_loop"
  /\ unfilled > 0
  /\ cfg.dryRun
  /\ result' = [result EXCEPT !.accepted = @ + 1]
  /\ pc' = IF result.accepted + 1 >= initialCount THEN "f_ret" ELSE "f_loop"
  /\ prim' = DryAcceptPrim
  /\ UNCHANGED mobileVars
  /\ UNCHANGED <<followFrame, unfilled, page, target, initialCount, rejStreak, excStreak>>

\* a success that leaves the failure counter alone
FailuresKept(errors) == errors

\* `result.errors = 0; // Reset consecutive errors`
FailuresAfterAccept(errors) == 0

\* click, wait: the count decreased
AcceptSuccess ==
  /\ pc = "f_loop"
  /\ unfilled > 0
  /\ ~cfg.dryRun
  /\ unfilled' = unfilled - 1
  /\ result' = [result EXCEPT !.accepted = @ + 1, !.errors = FailuresAfterAccept(@)]
  /\ pc' = "f_loop"
  /\ rejStreak' = 0
  /\ excStreak' = 0
  /\ prim' = "accept"
  /\ UNCHANGED mobileVars
  /\ UNCHANGED <<followFrame, page, target, initialCount>>

\* click, wait: the count is unchanged
AcceptUnchanged ==
  /\ pc = "f_loop"
  /\ unfilled > 0
  /\ ~cfg.dryRun
  /\ result' = [result EXCEPT !.errors = @ + 1]
  /\ pc' = IF result.errors + 1 >= ERROR_THRESHOLD THEN "f_ret" ELSE "f_loop"
  /\ rejStreak' = rejStreak + 1
  /\ prim' = "accept"
  /\ UNCHANGED mobileVars
  /\ UNCHANGED <<followFrame, unfilled, page, target, initialCount, excStreak>>

\* the click threw: the catch block
AcceptError ==
  /\ pc = "f_loop"
  /\ unfilled > 0
  /\ ~cfg.dryRun
  /\ result' = [result EXCEPT !.errors = @ + 1]
  /\ pc' = IF result.errors + 1 >= ERROR_THRESHOLD THEN "f_ret" ELSE "f_loop"
  /\ excStreak' = excStreak + 1
  /\ prim' = "accept"
  /\ UNCHANGED mobileVars
  /\ UNCHANGED <<followFrame, unfilled, page, target, initialCount, rejStreak>>

\* acceptFollowRequests returned: summary, exit code, closeBrowser
FollowsSummary ==
  /\ pc = "f_ret"
  /\ exitCode' = IF result.errors > 0 THEN 1 ELSE exitCode
  /\ session' = FALSE
  /\ pc' = "exit"
  /\ prim' = "none"
  /\ UNCHANGED mobileVars
  /\ UNCHANGED <<entry, cfg, env, logVars, threw, summary, resetDue, failed, nFeeds, feedIdx, remainingKudos, totalResult,
                 maxKudos, result, unfilled, page, target, initialCount, rejStreak, excStreak,
                 exitReason, browserResult>>

\* acceptFollowRequests threw: catch, exit code 1, closeBrowser
FollowsCatch ==
  /\ pc = "f_thrown"
  /\ exitCode' = 1
  /\ session' = FALSE
  /\ pc' = "exit"
  /\ prim' = "none"
  /\ UNCHANGED mobileVars
  /\ UNCHANGED <<entry, cfg, env, logVars, threw, summary, resetDue, failed, nFeeds, feedIdx, remainingKudos, totalResult,
                 maxKudos, result, unfilled, page, target, initialCount, rejStreak, excStreak,
                 exitReason, browserResult>>

NextFollows ==
  \/ FollowsStart
  \/ FollowsLaunchThrows
  \/ AcceptConnectionClosed
  \/ AcceptThrows
  \/ AcceptLoaded
  \/ AcceptNoMore
  \/ AcceptDryRun
  \/ AcceptSuccess
  \/ AcceptUnchanged
  \/ AcceptError
  \/ FollowsSummary
  \/ FollowsCatch

\* ======================================================= mobile surface
\* ---------------------------------------------------------------- bounds
\* position keys a screen snapshot can hold (the first lies in the header band)
MaxPos == 3
\* club names the clubs list can show
MaxClubs == 2
\* screens with new buttons the feeds show in one run
MaxScreens == 2
\* collaborator failures (dump, tap, verification, navigation) in one run
MaxFaults == 2

\* ------------------------------------------------------ program constants
KUDOS_PER_SESSION == 100
SAFE_Y_MIN == 500
SAFE_Y_MAX == 2700
\* the literal 3 of `state.consecutiveFailedTaps >= 3`
FAILED_TAPS_THRESHOLD == 3
\* the literal 3 of `state.consecutiveTapErrors >= 3`
TAP_ERRORS_THRESHOLD == 3
maxNoNewButtons == 10
maxDumpFailures == 5

\* a card's kudos icon is unfilled ("Give Kudos") or filled ("Kudos Given")
Descs == {"Give Kudos", "Kudos Given"}

\* the clubs list of a long session: no club (the list was lost), or as many
\* clubs as a session has kudos
SessionClubLists == { << >>, [i \in 1 .. KUDOS_PER_SESSION |-> i] }

\* the clubs list of an account with MaxClubs clubs: no club (the list was
\* lost), or all of them in any order
ShuffledClubLists(n) == { << >> } \cup { sq \in ClubListsUpTo(n) : Len(sq) = n }

\* the environment of a world: what its collaborators can show and how often.
\* A whole run of main meets one club and one collaborator failure on the
\* mobile surface; the mobile surface on its own meets MaxClubs and MaxFaults.
\* A session is a run long enough to fill a session of KUDOS_PER_SESSION
\* kudos: one club for each of them, each with one position in the safe band.
\* The world of tap failures has one position and one failure more, so that
\* TAP_ERRORS_THRESHOLD taps in a row can fail.
\* A fresh session is a long session in which no card has kudos yet and every
\* screen has MaxPos cards in the safe band. In the world of shuffles the
\* clubs list always holds the same MaxClubs clubs, in any order. In the
\* world of a stuck device the snapshot can fail maxDumpFailures times. In
\* the world of the post detail page the device can show that page after
\* every escape attempt.
World(world) ==
  [backlogs |-> Backlogs(world),
   nPos |-> IF world = "session" THEN MaxPos - 1
            ELSE IF world \in {"taps", "fresh"} THEN MaxPos + 1 ELSE MaxPos,
   stickyDetail |-> world = "detail",
   descs |-> IF world = "fresh" THEN {"Give Kudos"} ELSE Descs,
   clubLists |-> IF world = "mobile" THEN ClubListsUpTo(MaxClubs)
                 ELSE IF world = "shuffle" THEN ShuffledClubLists(MaxClubs)
                 ELSE IF world \in {"session", "fresh"} THEN SessionClubLists
                 ELSE ClubListsUpTo(1),
   screens |-> IF world \in {"session", "fresh"}
                 THEN KUDOS_PER_SESSION + MaxScreens ELSE MaxScreens,
   faults |-> IF world \in {"mobile", "shuffle"} THEN MaxFaults
              ELSE IF world = "stuck" THEN maxDumpFailures
              ELSE IF world = "taps" THEN MaxFaults + 1 ELSE 1]

\* ----------------------------------------------------------- UI snapshots
\* the kudos icon of the i-th card of a screen: cards are 700px apart, the
\* first one under the toolbar
ElementAt(i, desc) ==
  [bounds |-> [x1 |-> 1100, y1 |-> 300 + 700 * (i - 1),
               x2 |-> 1200, y2 |-> 400 + 700 * (i - 1)],
   contentDesc |-> desc,
   resourceId |-> "com.strava:id/icon_1",
   clickable |-> TRUE]

\* every element list adb.dumpUi can return: one icon per card, top to bottom
Snapshots == { [i \in 1 .. env.nPos |-> ElementAt(i, f[i])] : f \in [1 .. env.nPos -> env.descs] }

getCenter(el) ==
  [x |-> (el.bounds.x1 + el.bounds.x2) \div 2,
   y |-> (el.bounds.y1 + el.bounds.y2) \div 2]

isFindKudosButton(el) ==
  \/ el.contentDesc = "Give Kudos"
  \/ /\ el.resourceId = "com.strava:id/icon_1"
     /\ el.clickable
     /\ el.contentDesc # "Kudos Given"

findKudosButtons(elements) == SelectSeq(elements, isFindKudosButton)

isUnfilledKudos(el) == el.contentDesc = "Give Kudos"

isInSafeYRange(el) ==
  getCenter(el).y >= SAFE_Y_MIN /\ getCenter(el).y <= SAFE_Y_MAX

posKey(el) == << el.bounds.x1, el.bounds.y1 >>

\* the buttons of a snapshot, whether processed before or not
UnfilteredButtons(elements, processed) ==
  SelectSeq(SelectSeq(findKudosButtons(elements), isUnfilledKudos), isInSafeYRange)

\* lines 1326-1332: unfilled, in the safe band, not yet processed
NewButtons(elements, processed) ==
  LET notProcessed(el) == posKey(el) \notin processed
  IN SelectSeq(SelectSeq(SelectSeq(findKudosButtons(elements), isUnfilledKudos),
                         isInSafeYRange),
               notProcessed)

\* lines 1380: the positions the verification looks at
TappedPositions(btns, cnt) == { posKey(btns[i]) : i \in 1 .. Len(btns) }

\* lines 1384-1389: elements of the verification snapshot still unfilled at
\* one of those positions
StillUnfilled(verifyElements, tappedPositions) ==
  LET atTapped(el) == posKey(el) \in tappedPositions
  IN SelectSeq(SelectSeq(findKudosButtons(verifyElements), isUnfilledKudos), atTapped)

\* the shuffled club lists getClubsList can produce
ClubLists == env.clubLists

ZeroState ==
  [given |-> 0, errors |-> 0, rateLimited |-> FALSE, processedPositions |-> {},
   consecutiveFailedTaps |-> 0, consecutiveTapErrors |-> 0]

InitMobileVars ==
  /\ state = ZeroState
  /\ noNewButtonsCount = 0
  /\ consecutiveDumpFailures = 0
  /\ buttons = << >>
  /\ btnIdx = 1
  /\ counted = {}
  /\ stillUnfilled = << >>
  /\ clubNames = << >>
  /\ clubIndex = 0
  /\ processedClubs = {}
  /\ inClub = FALSE
  /\ contentLeft = env.screens
  /\ faultsLeft = env.faults
  /\ mobileResult = ZeroSurface
  /\ resetDue = FALSE

mobFrame == <<entry, cfg, env, logVars, threw, summary, failed, exitCode, browserVars>>

\* ------------------------------------------------ giveKudosOnCurrentFeed
\* this step brought state.given to a positive multiple of KUDOS_PER_SESSION,
\* or an earlier one did and no restart followed
ResetDueAfter ==
  \/ resetDue
  \/ /\ state'.given # state.given
     /\ state'.given > 0
     /\ state'.given % KUDOS_PER_SESSION = 0

\* `while (!state.rateLimited && state.given < maxKudos)`
FeedLoopCond == ~state.rateLimited /\ ~GEq(state.given, maxKudos)

feedFrame == <<mobFrame, clubNames, clubIndex, processedClubs, inClub, mobileResult>>
batchLocals == <<buttons, btnIdx, counted, stillUnfilled>>

\* the while condition is false: return state
FeedLoopExit ==
  /\ pc = "m_loop"
  /\ ~FeedLoopCond
  /\ noNewButtonsCount' = 0
  /\ consecutiveDumpFailures' = 0
  /\ pc' = "m_feed_ret"
  /\ prim' = "none"
  /\ UNCHANGED <<feedFrame, batchLocals, state, contentLeft, faultsLeft>>
  /\ UNCHANGED resetDue

\* attemptDumpWithVideoPause threw; scroll past, or give the club up
FeedDumpFails ==
  /\ pc = "m_loop"
  /\ FeedLoopCond
  /\ faultsLeft > 0
  /\ faultsLeft' = faultsLeft - 1
  /\ consecutiveDumpFailures' = consecutiveDumpFailures + 1
  /\ noNewButtonsCount' = noNewButtonsCount
  /\ pc' = IF consecutiveDumpFailures + 1 >= maxDumpFailures
             THEN "m_feed_ret" ELSE "m_loop"
  /\ prim' = "none"
  /\ UNCHANGED <<feedFrame, batchLocals, state, contentLeft>>
  /\ UNCHANGED resetDue

\* a snapshot that leaves the count of failed snapshots as it is
DumpFailuresKept(n) == n

\* `consecutiveDumpFailures = 0;  // Reset on success`
DumpFailuresAfterSnapshot(n) == 0

\* the snapshot shows a post detail page: call escapeToSafeView. On a device
\* where the page sticks, seeing it again is no further failure
FeedPostDetail ==
  /\ pc = "m_loop"
  /\ FeedLoopCond
  /\ faultsLeft > 0
  /\ faultsLeft' = IF env.stickyDetail THEN faultsLeft ELSE faultsLeft - 1
  /\ consecutiveDumpFailures' = DumpFailuresAfterSnapshot(consecutiveDumpFailures)
  /\ pc' = "m_escape"
  /\ prim' = "none"
  /\ UNCHANGED <<feedFrame, batchLocals, state, noNewButtonsCount, contentLeft>>
  /\ UNCHANGED resetDue

\* escapeToSafeView returned, after at most maxBackPresses back presses,
\* whatever the screen is now: `continue`
EscapeReturns ==
  /\ pc = "m_escape"
  /\ pc' = "m_loop"
  /\ prim' = "back"
  /\ UNCHANGED <<feedFrame, batchLocals, state, noNewButtonsCount,
                 consecutiveDumpFailures, contentLeft, faultsLeft>>
  /\ UNCHANGED resetDue

\* the button lists the next snapshot can give
ButtonLists == { NewButtons(elements, state.processedPositions) : elements \in Snapshots }

\* the snapshot has no new button: count the empty screen, scroll, or
\* conclude the feed is exhausted
FeedNoButtons ==
  /\ pc = "m_loop"
  /\ FeedLoopCond
  /\ << >> \in ButtonLists \/ contentLeft = 0
  /\ noNewButtonsCount' = noNewButtonsCount + 1
  /\ pc' = IF noNewButtonsCount + 1 >= maxNoNewButtons THEN "m_feed_ret" ELSE "m_loop"
  /\ consecutiveDumpFailures' = DumpFailuresAfterSnapshot(consecutiveDumpFailures)
  /\ prim' = "none"
  /\ UNCHANGED <<feedFrame, batchLocals, state, contentLeft, faultsLeft>>
  /\ UNCHANGED resetDue

\* the snapshot has new buttons: start the batch
FeedButtons ==
  /\ pc = "m_loop"
  /\ FeedLoopCond
  /\ contentLeft > 0
  /\ \E btns \in ButtonLists \ { << >> } : buttons' = btns
  /\ contentLeft' = contentLeft - 1
  /\ consecutiveDumpFailures' = DumpFailuresAfterSnapshot(consecutiveDumpFailures)
  /\ noNewButtonsCount' = 0
  /\ btnIdx' = 1
  /\ counted' = {}
  /\ pc' = "m_tap"
  /\ prim' = "none"
  /\ UNCHANGED <<feedFrame, state, stillUnfilled, faultsLeft>>
  /\ UNCHANGED resetDue

tapFrame == <<feedFrame, noNewButtonsCount, consecutiveDumpFailures, buttons,
              stillUnfilled, contentLeft>>

\* for-loop over buttons finished
TapLoopEnd ==
  /\ pc = "m_tap"
  /\ btnIdx > Len(buttons)
  /\ pc' = "m_verify"
  /\ prim' = "none"
  /\ UNCHANGED <<tapFrame, state, btnIdx, counted, faultsLeft>>
  /\ UNCHANGED resetDue

\* `if (state.given >= maxKudos) break`
TapCapBreak ==
  /\ pc = "m_tap"
  /\ btnIdx <= Len(buttons)
  /\ GEq(state.given, maxKudos)
  /\ pc' = "m_verify"
  /\ prim' = "none"
  /\ UNCHANGED <<tapFrame, state, btnIdx, counted, faultsLeft>>
  /\ UNCHANGED resetDue

CanTap ==
  /\ pc = "m_tap"
  /\ btnIdx <= Len(buttons)
  /\ ~GEq(state.given, maxKudos)

\* the primitive a dry-run pass over a button invokes
DryTapPrim == "none"

\* dry run: record the position, count, no tap
TapDryRun ==
  /\ CanTap
  /\ cfg.dryRun
  /\ state' = [state EXCEPT
                 !.processedPositions = @ \cup {posKey(buttons[btnIdx])},
                 !.given = @ + 1]
  /\ counted' = counted \cup {posKey(buttons[btnIdx])}
  /\ btnIdx' = btnIdx + 1
  /\ pc' = "m_tap"
  /\ prim' = DryTapPrim
  /\ UNCHANGED <<tapFrame, faultsLeft>>
  /\ resetDue' = ResetDueAfter

\* giveKudosToActivity returned: count optimistically
TapOk ==
  /\ CanTap
  /\ ~cfg.dryRun
  /\ state' = [state EXCEPT
                 !.processedPositions = @ \cup {posKey(buttons[btnIdx])},
                 !.given = @ + 1,
                 !.consecutiveTapErrors = 0]
  /\ counted' = counted \cup {posKey(buttons[btnIdx])}
  /\ btnIdx' = btnIdx + 1
  /\ pc' = "m_tap"
  /\ prim' = "tap"
  /\ UNCHANGED <<tapFrame, faultsLeft>>
  /\ resetDue' = ResetDueAfter

\* giveKudosToActivity threw
TapError ==
  /\ CanTap
  /\ ~cfg.dryRun
  /\ faultsLeft > 0
  /\ faultsLeft' = faultsLeft - 1
  /\ state' = [state EXCEPT
                 !.processedPositions = @ \cup {posKey(buttons[btnIdx])},
                 !.consecutiveTapErrors = @ + 1,
                 !.errors = @ + 1]
  /\ pc' = IF state.consecutiveTapErrors + 1 >= TAP_ERRORS_THRESHOLD
             THEN "m_verify" ELSE "m_tap"
  /\ btnIdx' = btnIdx + 1
  /\ prim' = "tap"
  /\ threw' = TRUE
  /\ UNCHANGED <<entry, cfg, env, logVars, summary, failed, exitCode, browserVars, clubNames, clubIndex,
                 processedClubs, inClub, mobileResult, noNewButtonsCount,
                 consecutiveDumpFailures, buttons, stillUnfilled, contentLeft, counted>>
  /\ UNCHANGED resetDue

\* the end of a loop iteration: its locals are gone, scroll, next iteration
EndOfScreen ==
  /\ buttons' = << >>
  /\ btnIdx' = 1
  /\ counted' = {}
  /\ stillUnfilled' = << >>

verifyFrame == <<feedFrame, noNewButtonsCount, consecutiveDumpFailures, contentLeft>>

\* `if (!dryRun && buttons.length > 0)` is false: scroll on
VerifySkipped ==
  /\ pc = "m_verify"
  /\ cfg.dryRun \/ Len(buttons) = 0
  /\ EndOfScreen
  /\ pc' = "m_loop"
  /\ prim' = "none"
  /\ UNCHANGED <<verifyFrame, state, faultsLeft>>
  /\ UNCHANGED resetDue

\* the verification snapshot was taken: stillUnfilled
VerifyDump ==
  /\ pc = "m_verify"
  /\ ~cfg.dryRun
  /\ Len(buttons) > 0
  /\ \E su \in { StillUnfilled(verifyElements, TappedPositions(buttons, counted)) :
                   verifyElements \in Snapshots } :
       stillUnfilled' = su
  /\ pc' = "m_reconcile"
  /\ prim' = "none"
  /\ UNCHANGED <<verifyFrame, state, buttons, btnIdx, counted, faultsLeft>>
  /\ UNCHANGED resetDue

\* what reconciliation does to the streak when nothing is still unfilled
StreakAfterCleanBatch(s) == 0

\* state after the verification snapshot reported n elements still unfilled
Reconciled(st, n) ==
  IF n > 0
    THEN [st EXCEPT
            !.given = @ - n,
            !.consecutiveFailedTaps = @ + n,
            !.rateLimited = @ \/ (st.consecutiveFailedTaps + n >= FAILED_TAPS_THRESHOLD)]
    ELSE [st EXCEPT !.consecutiveFailedTaps = StreakAfterCleanBatch(@)]

\* lines 1391-1405: adjust the count and the streak; rate limited: break and
\* return, else scroll on
Reconcile ==
  /\ pc = "m_reconcile"
  /\ state' = Reconciled(state, Len(stillUnfilled))
  /\ IF state'.rateLimited
       THEN /\ pc' = "m_feed_ret"
            /\ noNewButtonsCount' = 0
            /\ consecutiveDumpFailures' = 0
       ELSE /\ pc' = "m_loop"
            /\ UNCHANGED <<noNewButtonsCount, consecutiveDumpFailures>>
  /\ EndOfScreen
  /\ prim' = "none"
  /\ UNCHANGED <<feedFrame, contentLeft, faultsLeft>>
  /\ resetDue' = ResetDueAfter

\* a catch block that forgets the failure streak
StreakForgotten(st) == [st EXCEPT !.consecutiveFailedTaps = 0]

\* what `catch (verifyError)` does to the state: it only logs
Unverified(st) == st

\* the verification snapshot threw: the catch block
VerifyFails ==
  /\ pc = "m_verify"
  /\ ~cfg.dryRun
  /\ Len(buttons) > 0
  /\ faultsLeft > 0
  /\ faultsLeft' = faultsLeft - 1
  /\ state' = Unverified(state)
  /\ pc' = "m_unverified"
  /\ prim' = "none"
  /\ UNCHANGED <<verifyFrame, buttons, btnIdx, counted, stillUnfilled>>
  /\ UNCHANGED resetDue

\* "continuing...": the iteration ends without verification, scroll on
VerifyCaught ==
  /\ pc = "m_unverified"
  /\ EndOfScreen
  /\ pc' = "m_loop"
  /\ prim' = "none"
  /\ UNCHANGED <<verifyFrame, state, faultsLeft>>
  /\ UNCHANGED resetDue

\* ------------------------------------------------------- giveKudosMobile
clubFrame == <<mobFrame, buttons, btnIdx, counted, stillUnfilled, contentLeft>>

\* a result that forgets what the state counted
NothingCounted(st) == ZeroSurface

\* "Update result from state": what giveKudosMobile returns
ResultOf(st) ==
  [given |-> st.given, errors |-> st.errors, rateLimited |-> st.rateLimited]

\* the emulator cannot be started, Strava does not launch, or the Groups tab
\* is not found: `result.errors = 1; return result`
MobileSetupFails ==
  /\ pc = "m_start"
  /\ faultsLeft > 0
  /\ faultsLeft' = faultsLeft - 1
  /\ mobileResult' = [given |-> 0, errors |-> 1, rateLimited |-> FALSE]
  /\ pc' = "m_done"
  /\ prim' = "none"
  /\ threw' = TRUE
  /\ UNCHANGED <<entry, cfg, env, logVars, summary, failed, exitCode, browserVars, buttons, btnIdx,
                 counted, stillUnfilled, contentLeft, state, noNewButtonsCount,
                 consecutiveDumpFailures, clubNames, clubIndex, processedClubs, inClub>>
  /\ UNCHANGED resetDue

\* set-up succeeded: initial state, clubs list (shuffled); with no club the
\* current feed is processed
MobileSetup ==
  /\ pc = "m_start"
  /\ state' = ZeroState
  /\ \E names \in ClubLists : clubNames' = names
  /\ clubIndex' = 0
  /\ processedClubs' = {}
  /\ noNewButtonsCount' = 0
  /\ consecutiveDumpFailures' = 0
  /\ IF Len(clubNames') = 0
       THEN inClub' = FALSE /\ pc' = "m_loop"
       ELSE inClub' = TRUE /\ pc' = "m_clubs"
  /\ prim' = "none"
  /\ UNCHANGED <<clubFrame, faultsLeft, mobileResult>>
  /\ UNCHANGED resetDue

\* `clubIndex < clubNames.length && !state.rateLimited`
ClubLoopCond == clubIndex < Len(clubNames) /\ ~state.rateLimited

\* result.given/errors/rateLimited = state...; return result
MobileReturn ==
  /\ pc = "m_clubs"
  /\ ~ClubLoopCond
  /\ mobileResult' = ResultOf(state)
  /\ pc' = "m_done"
  /\ prim' = "none"
  /\ UNCHANGED <<clubFrame, state, noNewButtonsCount, consecutiveDumpFailures,
                 clubNames, clubIndex, processedClubs, inClub, faultsLeft>>
  /\ UNCHANGED resetDue

\* `if (processedClubs.has(clubName)) continue`
ClubAlreadyProcessed ==
  /\ pc = "m_clubs"
  /\ ClubLoopCond
  /\ clubNames[clubIndex + 1] \in processedClubs
  /\ clubIndex' = clubIndex + 1
  /\ pc' = "m_clubs"
  /\ prim' = "none"
  /\ UNCHANGED <<clubFrame, state, noNewButtonsCount, consecutiveDumpFailures,
                 clubNames, processedClubs, inClub, faultsLeft, mobileResult>>
  /\ UNCHANGED resetDue

\* scrollToAndTapClub returned false: continue with the next index
ClubEnterFails ==
  /\ pc = "m_clubs"
  /\ ClubLoopCond
  /\ clubNames[clubIndex + 1] \notin processedClubs
  /\ faultsLeft > 0
  /\ faultsLeft' = faultsLeft - 1
  /\ processedClubs' = processedClubs \cup {clubNames[clubIndex + 1]}
  /\ clubIndex' = clubIndex + 1
  /\ pc' = "m_clubs"
  /\ prim' = "none"
  /\ UNCHANGED <<clubFrame, state, noNewButtonsCount, consecutiveDumpFailures,
                 clubNames, inClub, mobileResult>>
  /\ UNCHANGED resetDue

\* the club is entered: giveKudosOnCurrentFeed(state, maxKudos, dryRun)
ClubEnter ==
  /\ pc = "m_clubs"
  /\ ClubLoopCond
  /\ clubNames[clubIndex + 1] \notin processedClubs
  /\ processedClubs' = processedClubs \cup {clubNames[clubIndex + 1]}
  /\ noNewButtonsCount' = 0
  /\ consecutiveDumpFailures' = 0
  /\ pc' = "m_loop"
  /\ prim' = "none"
  /\ UNCHANGED <<clubFrame, state, clubNames, clubIndex, inClub, faultsLeft,
                 mobileResult>>
  /\ UNCHANGED resetDue

\* the fallback feed returned: return the result
FallbackReturn ==
  /\ pc = "m_feed_ret"
  /\ ~inClub
  /\ mobileResult' = ResultOf(state)
  /\ pc' = "m_done"
  /\ prim' = "none"
  /\ noNewButtonsCount' = 0
  /\ consecutiveDumpFailures' = 0
  /\ UNCHANGED <<clubFrame, state, clubNames, clubIndex, processedClubs, inClub,
                 faultsLeft>>
  /\ UNCHANGED resetDue

\* `if (state.rateLimited) break`
ClubRateLimited ==
  /\ pc = "m_feed_ret"
  /\ inClub
  /\ state.rateLimited
  /\ mobileResult' = ResultOf(state)
  /\ pc' = "m_done"
  /\ prim' = "none"
  /\ noNewButtonsCount' = 0
  /\ consecutiveDumpFailures' = 0
  /\ UNCHANGED <<clubFrame, state, clubNames, clubIndex, processedClubs, inClub,
                 faultsLeft>>
  /\ UNCHANGED resetDue

\* `state.given > 0 && state.given % KUDOS_PER_SESSION === 0`
SessionFull == state.given > 0 /\ state.given % KUDOS_PER_SESSION = 0

\* a reset that clears nothing
NotCleared(st) == st

\* processedPositions.clear() and the two streak resets
Cleared(st) ==
  [st EXCEPT !.processedPositions = {},
             !.consecutiveFailedTaps = 0,
             !.consecutiveTapErrors = 0]

\* a restart that remembers the clubs of the session before
ClubsKept(clubs) == clubs

\* `processedClubs.clear()` of the restart
ClubsAfterRestart(clubs) == {}

\* what the rest of the loop body can lead to: <<state, clubNames, clubIndex
\* at the next loop head, processedClubs, leave the loop?>>
\*  - session full: kill and restart the emulator, relaunch, re-enumerate,
\*    clear, index -1; a failed restart or relaunch breaks
\*  - else goBack, clear, re-fetch the list; if it is empty, recover and take
\*    index -1, or break when it stays empty
AfterFeedOutcomes ==
  IF SessionFull
    THEN { << Cleared(state), names, 0, ClubsAfterRestart(processedClubs), FALSE >> :
             names \in ClubLists }
         \cup { << state, clubNames, clubIndex, processedClubs, TRUE >> }
    ELSE { << Cleared(state), names, clubIndex + 1, processedClubs, FALSE >> :
             names \in ClubLists \ { << >> } }
         \cup { << Cleared(state), names, 0, processedClubs, FALSE >> :
                  names \in ClubLists \ { << >> } }
         \cup { << Cleared(state), << >>, clubIndex, processedClubs, TRUE >> }

\* the feed of a club returned without rate limit
ClubAfterFeed ==
  /\ pc = "m_feed_ret"
  /\ inClub
  /\ ~state.rateLimited
  /\ \E o \in AfterFeedOutcomes :
       /\ state' = o[1]
       /\ clubNames' = o[2]
       /\ clubIndex' = o[3]
       /\ processedClubs' = o[4]
       /\ resetDue' = IF SessionFull /\ ~o[5] THEN FALSE ELSE resetDue
       /\ IF o[5]
            THEN /\ mobileResult' = ResultOf(o[1])
                 /\ pc' = "m_done"
            ELSE /\ mobileResult' = mobileResult
                 /\ pc' = "m_clubs"
  /\ prim' = "none"
  /\ noNewButtonsCount' = 0
  /\ consecutiveDumpFailures' = 0
  /\ UNCHANGED <<clubFrame, inClub, faultsLeft>>

NextMobile ==
  \/ MobileSetupFails
  \/ MobileSetup
  \/ MobileReturn
  \/ ClubAlreadyProcessed
  \/ ClubEnterFails
  \/ ClubEnter
  \/ FallbackReturn
  \/ ClubRateLimited
  \/ ClubAfterFeed
  \/ FeedLoopExit
  \/ FeedDumpFails
  \/ FeedPostDetail
  \/ EscapeReturns
  \/ FeedNoButtons
  \/ FeedButtons
  \/ TapLoopEnd
  \/ TapCapBreak
  \/ TapDryRun
  \/ TapOk
  \/ TapError
  \/ VerifySkipped
  \/ VerifyDump
  \/ Reconcile
  \/ VerifyFails
  \/ VerifyCaught

\* ================================================================== main
\* the budget main hands to giveKudosMobile
MobileBudget ==
  IF cfg.maxKudosPerRun = Infinity THEN Infinity
  ELSE cfg.maxKudosPerRun - browserResult.given

\* launchBrowser, then giveKudosToAllFeeds; or straight to the mobile part
MainStart ==
  /\ pc = "main"
  /\ IF cfg.mobileOnly
       THEN pc' = "main_mobile" /\ session' = FALSE
       ELSE pc' = "feeds" /\ session' = TRUE
  /\ prim' = "none"
  /\ UNCHANGED mobileVars
  /\ UNCHANGED <<entry, cfg, env, logVars, threw, summary, resetDue, failed, exitCode, nFeeds, feedIdx, remainingKudos,
                 totalResult, maxKudos, result, unfilled, page, target, initialCount, rejStreak,
                 excStreak, exitReason, browserResult>>

\* launchBrowser threw: catch, exit code 1
MainLaunchThrows ==
  /\ pc = "main"
  /\ ~cfg.mobileOnly
  /\ exitCode' = 1
  /\ pc' = "exit"
  /\ prim' = "none"
  /\ UNCHANGED <<entry, cfg, env, logVars, threw, summary, resetDue, failed, browserVars, mobileVars>>

\* a session that stays as it is
LeftOpen(sess) == sess

\* `await closeBrowser(session); session = undefined`: is a session open?
closeBrowser(sess) == FALSE

\* giveKudosToAllFeeds returned: browserResult, closeBrowser; the locals of
\* the browser functions are gone
MainBrowserReturned ==
  /\ pc = "feeds_done"
  /\ entry = "main"
  /\ browserResult' = [given |-> totalResult.given, errors |-> totalResult.errors,
                       rateLimited |-> totalResult.rateLimited]
  /\ session' = closeBrowser(session)
  /\ feedIdx' = 1
  /\ totalResult' = ZeroResult
  /\ remainingKudos' = cfg.maxKudosPerRun
  /\ result' = ZeroResult
  /\ unfilled' = 0
  /\ page' = {}
  /\ target' = 0
  /\ initialCount' = 0
  /\ rejStreak' = 0
  /\ excStreak' = 0
  /\ exitReason' = "none"
  /\ maxKudos' = cfg.maxKudosPerRun
  /\ pc' = "main_mobile"
  /\ prim' = "none"
  /\ UNCHANGED mobileVars
  /\ UNCHANGED <<entry, cfg, env, logVars, threw, summary, resetDue, failed, exitCode, nFeeds>>

\* a catch block that leaves the exit code alone
KeptExitCode(code) == code

\* `process.exitCode = 1` of the catch block
CatchExitCode(code) == 1

\* giveKudos threw through giveKudosToAllFeeds: catch, finally closeBrowser
MainCatch ==
  /\ pc = "thrown"
  /\ entry = "main"
  /\ exitCode' = CatchExitCode(exitCode)
  /\ session' = FALSE
  /\ pc' = "exit"
  /\ prim' = "none"
  /\ UNCHANGED mobileVars
  /\ UNCHANGED <<entry, cfg, env, logVars, threw, summary, resetDue, failed, nFeeds, feedIdx, remainingKudos, totalResult,
                 maxKudos, result, unfilled, page, target, initialCount, rejStreak, excStreak,
                 exitReason, browserResult>>

\* a fallback that does not look at how the browser surface ended
MobileUnlessSkipped == cfg.mobileOnly \/ ~cfg.skipMobile

\* lines 56-57
shouldRunMobile == cfg.mobileOnly \/ (browserResult.rateLimited /\ ~cfg.skipMobile)

\* the mobile surface is not to run: summary
MainNoMobile ==
  /\ pc = "main_mobile"
  /\ ~shouldRunMobile
  /\ pc' = "summary"
  /\ prim' = "none"
  /\ UNCHANGED <<entry, cfg, env, logVars, threw, summary, resetDue, failed, exitCode, browserVars, mobileVars>>

\* isMobileAvailable or startEmulator succeeded: giveKudosMobile(remaining)
MainMobileCall ==
  /\ pc = "main_mobile"
  /\ shouldRunMobile
  /\ maxKudos' = MobileBudget
  /\ pc' = "m_start"
  /\ prim' = "none"
  /\ UNCHANGED mobileVars
  /\ UNCHANGED <<entry, cfg, env, logVars, threw, summary, resetDue, failed, exitCode, session, nFeeds, feedIdx,
                 remainingKudos, totalResult, result, unfilled, page, target, initialCount,
                 rejStreak, excStreak, exitReason, browserResult>>

\* a main for which every missing emulator is fatal
AlwaysFatal == TRUE

\* `if (config.mobileOnly) throw new Error(...)`
FatalWithoutEmulator == cfg.mobileOnly

\* no emulator: fatal in mobile-only mode, else the summary without mobile
MainMobileUnavailable ==
  /\ pc = "main_mobile"
  /\ shouldRunMobile
  /\ faultsLeft > 0
  /\ faultsLeft' = faultsLeft - 1
  /\ IF FatalWithoutEmulator
       THEN exitCode' = 1 /\ pc' = "exit"
       ELSE exitCode' = exitCode /\ pc' = "summary"
  /\ prim' = "none"
  /\ UNCHANGED <<entry, cfg, env, logVars, threw, summary, resetDue, failed, browserVars, state, noNewButtonsCount,
                 consecutiveDumpFailures, buttons, btnIdx, counted, stillUnfilled, clubNames,
                 clubIndex, processedClubs, inClub, contentLeft, mobileResult>>

\* giveKudosMobile returned to main
MainMobileReturned ==
  /\ pc = "m_done"
  /\ entry = "main"
  /\ pc' = "summary"
  /\ prim' = "none"
  /\ UNCHANGED <<entry, cfg, env, logVars, threw, summary, resetDue, failed, exitCode, browserVars, mobileVars>>

\* a combination that forgets the mobile surface
BrowserOnly ==
  [given |-> browserResult.given,
   errors |-> browserResult.errors,
   rateLimited |-> browserResult.rateLimited]

\* main's combined result
Combined ==
  [given |-> browserResult.given + mobileResult.given,
   errors |-> browserResult.errors + mobileResult.errors,
   rateLimited |-> browserResult.rateLimited
                     /\ (cfg.skipMobile \/ mobileResult.rateLimited)]

\* summary; `if (result.errors > 0) process.exitCode = 1`
MainSummary ==
  /\ pc = "summary"
  /\ summary' = [printed |-> TRUE, given |-> Combined.given,
                 errors |-> Combined.errors, rateLimited |-> Combined.rateLimited]
  /\ exitCode' = IF Combined.errors > 0 THEN 1 ELSE exitCode
  /\ pc' = "exit"
  /\ prim' = "none"
  /\ UNCHANGED <<entry, cfg, env, logVars, threw, resetDue, failed, browserVars, mobileVars>>

NextMain ==
  \/ MainStart
  \/ MainLaunchThrows
  \/ MainBrowserReturned
  \/ MainCatch
  \/ MainNoMobile
  \/ MainMobileCall
  \/ MainMobileUnavailable
  \/ MainMobileReturned
  \/ MainSummary

NextBrowser ==
  \/ FeedsBudgetStop
  \/ FeedsEnd
  \/ CallGiveKudos
  \/ GotoLoaded
  \/ GotoConnectionClosed
  \/ GotoTimeout
  \/ GotoThrows
  \/ LoopLimit
  \/ LoopNoMore
  \/ LoopDryRun
  \/ LoopClickSuccess
  \/ LoopClickRejected
  \/ LoopClickError
  \/ FeedsAccumulate

\* ================================================================ logger
\* ---------------------------------------------------------------- bounds
\* records runs.json can hold
MaxRuns == 2
\* the later of the two calendar dates a timestamp can name
MaxDay == 1
\* the larger of the two kudosGiven values of a run
MaxGiven == 2

\* ISO 8601 timestamps: a calendar date, its first or last hour, and a UTC
\* offset in hours (Z or +01:00)
Timestamps == [date : {0, MaxDay}, hour : {0, 23}, offset : {0, 1}]

\* `new Date(timestamp)`: hours since the epoch
NewDate(ts) == ts.date * 24 + ts.hour - ts.offset

\* getUTCFullYear / getUTCMonth / getUTCDate: the UTC calendar day of a Date
getUTCDate(d) == d \div 24

\* `new Date(Date.UTC(year, month, date, 0, 0, 0, 0))`
DateUTC(day) == day * 24

\* the RunLog objects callers pass (errors, rateLimited and durationMs play no
\* part in the log's arithmetic and are left out)
RunLogs == [timestamp : Timestamps, kudosGiven : {1, MaxGiven}, dryRun : BOOLEAN]

\* a total over every run up to targetIndex that is not a dry run, whatever
\* its day
TotalOfAllDays(lgs, targetIndex) ==
  LET RECURSIVE total(_)
      total(i) == IF i = 0 THEN 0
                  ELSE total(i - 1) + (IF lgs[i].dryRun THEN 0 ELSE lgs[i].kudosGiven)
  IN total(targetIndex)

\* lines 17-45; targetIndex and the loop index are 1-based here
getDailyTotal(lgs, targetIndex) ==
  LET targetDate == NewDate(lgs[targetIndex].timestamp)
      dayStart == DateUTC(getUTCDate(targetDate))
      dayEnd == DateUTC(getUTCDate(targetDate) + 1)
      counts(i) == /\ NewDate(lgs[i].timestamp) >= dayStart
                   /\ NewDate(lgs[i].timestamp) < dayEnd
                   /\ ~lgs[i].dryRun
      RECURSIVE total(_)
      total(i) == IF i = 0 THEN 0
                  ELSE total(i - 1) + (IF counts(i) THEN lgs[i].kudosGiven ELSE 0)
  IN total(targetIndex)

NoFile == [kind |-> "missing", logs |-> << >>]
Unparseable == [kind |-> "unparseable", logs |-> << >>]
NotArray == [kind |-> "notArray", logs |-> << >>]
ArrayFile(lgs) == [kind |-> "array", logs |-> lgs]

\* a reader that always starts fresh
ReadNothing(file) == << >>

\* lines 48-63: the array in the file; no file, a parse error or a value that
\* is not an array give []
ReadLogs(file) == IF file.kind = "array" THEN file.logs ELSE << >>

\* `log.notes = ...`: the run number in the notes
WithNotes(lg, runNumber) ==
  [timestamp |-> lg.timestamp, kudosGiven |-> lg.kudosGiven, dryRun |-> lg.dryRun,
   notes |-> << "Run #", runNumber >>]

\* `log.dailyTotal = dailyTotal`
WithDailyTotal(lg, total) ==
  [timestamp |-> lg.timestamp, kudosGiven |-> lg.kudosGiven, dryRun |-> lg.dryRun,
   notes |-> lg.notes, dailyTotal |-> total]

\* writeFileSync: the array is written, or it throws with the file untouched
\* (it could not be opened) or cut short (opened and truncated)
WriteFileSync(file, lgs) ==
  { ArrayFile(lgs), file, Unparseable }

\* a write error that leaves the try block of appendRunLog
WriteEscapes(written, lgs) == written # ArrayFile(lgs)

\* lines 77-81: the catch around writeFileSync logs the error; nothing is
\* thrown to the caller
WriteThrows(written, lgs) == FALSE

\* appendRunLog(log), lines 47-86, as the set of its outcomes: log is pushed
\* and then given its dailyTotal, so the array element carries it
AppendRunLog(file, arg) ==
  LET old == ReadLogs(file)
      pushed == Append(old, WithNotes(arg, Len(old) + 1))
      total == getDailyTotal(pushed, Len(pushed))
      final == [pushed EXCEPT ![Len(pushed)] = WithDailyTotal(@, total)]
  IN { [file |-> written, logs |-> final, log |-> final[Len(final)],
        dailyTotal |-> total, thrown |-> WriteThrows(written, final)] :
       written \in WriteFileSync(file, final) }

\* a call of appendRunLog that returns
appendRunLog ==
  /\ pc = "log"
  /\ Len(ReadLogs(logFile)) < MaxRuns
  /\ \E arg \in RunLogs :
       \E out \in AppendRunLog(logFile, arg) :
          /\ ~out.thrown
          /\ logs' = out.logs
          /\ log' = out.log
          /\ dailyTotal' = out.dailyTotal
          /\ logFile' = out.file
  /\ pc' = "log"
  /\ prim' = "none"
  /\ UNCHANGED <<entry, cfg, env, threw, summary, resetDue, failed, exitCode, browserVars, mobileVars>>

\* scripts/backfill-daily-totals.ts, lines 23-52: the script's own copy of
\* getDailyTotal; targetIndex and the loop index are 1-based here
getDailyTotalBackfill(lgs, targetIndex) ==
  LET targetLog == lgs[targetIndex]
      targetDate == NewDate(targetLog.timestamp)
      dayStart == DateUTC(getUTCDate(targetDate))
      dayEnd == DateUTC(getUTCDate(targetDate) + 1)
      RECURSIVE total(_)
      total(i) ==
        IF i = 0 THEN 0
        ELSE LET lg == lgs[i]
                 logDate == NewDate(lg.timestamp)
             IN total(i - 1)
                  + (IF logDate >= dayStart /\ logDate < dayEnd /\ ~lg.dryRun
                       THEN lg.kudosGiven ELSE 0)
  IN total(targetIndex)

\* lines 61-68: `log.dailyTotal = getDailyTotal(logs, i)` for every record,
\* in index order; the records' other fields stay
backfill(lgs) ==
  [i \in 1 .. Len(lgs) |-> WithDailyTotal(lgs[i], getDailyTotalBackfill(lgs, i))]

\* a run of the backfill script on a runs.json that holds an array: read,
\* recompute, write back (the write can fail as in appendRunLog)
Backfill ==
  /\ pc = "log"
  /\ logFile.kind = "array"
  /\ logFile' \in WriteFileSync(logFile, backfill(logFile.logs))
  /\ pc' = "log"
  /\ prim' = "backfill"
  /\ UNCHANGED <<logs, log, dailyTotal>>
  /\ UNCHANGED <<entry, cfg, env, threw, summary, resetDue, failed, exitCode, browserVars, mobileVars>>

NextLog == appendRunLog

InitLogVars ==
  /\ logFile \in {NoFile, Unparseable, NotArray, ArrayFile(<< >>)}
  /\ logs = << >>
  /\ log = [kudosGiven |-> 0]
  /\ dailyTotal = 0

\* the run log is not touched outside appendRunLog
NoLogVars ==
  /\ logFile = NoFile
  /\ logs = << >>
  /\ log = [kudosGiven |-> 0]
  /\ dailyTotal = 0

\* ============================================ index.ts: main with the run log
\* launchBrowser (and fetchUserClubs), then giveKudosToAllFeeds
IndexStart ==
  /\ pc = "i_main"
  /\ session' = TRUE
  /\ pc' = "feeds"
  /\ prim' = "none"
  /\ UNCHANGED mobileVars
  /\ UNCHANGED <<entry, cfg, env, logVars, threw, summary, resetDue, failed, exitCode, nFeeds, feedIdx, remainingKudos,
                 totalResult, maxKudos, result, unfilled, page, target, initialCount, rejStreak,
                 excStreak, exitReason, browserResult>>

\* launchBrowser or fetchUserClubs threw: catch, exit code 1, finally
IndexLaunchThrows ==
  /\ pc = "i_main"
  /\ exitCode' = 1
  /\ pc' = "exit"
  /\ prim' = "none"
  /\ UNCHANGED <<entry, cfg, env, logVars, threw, summary, resetDue, failed, browserVars, mobileVars>>

\* the RunLog main builds from the result, `new Date().toISOString()` being
\* some timestamp in UTC
IndexRunLogs ==
  { [timestamp |-> ts, kudosGiven |-> totalResult.given, dryRun |-> cfg.dryRun] :
      ts \in {t \in Timestamps : t.offset = 0} }

\* lines 65-68 and the catch of lines 70-72: the exit status after the log call
IndexExitCode(thrown) ==
  IF thrown \/ totalResult.errors > 0 THEN 1 ELSE exitCode

\* giveKudosToAllFeeds returned: summary, appendRunLog, exit status, finally
\* closeBrowser
IndexBrowserReturned ==
  /\ pc = "feeds_done"
  /\ entry = "index"
  /\ browserResult' = [given |-> totalResult.given, errors |-> totalResult.errors,
                       rateLimited |-> totalResult.rateLimited]
  /\ \E arg \in IndexRunLogs :
       \E out \in AppendRunLog(logFile, arg) :
          /\ logs' = out.logs
          /\ log' = out.log
          /\ dailyTotal' = out.dailyTotal
          /\ logFile' = out.file
          /\ exitCode' = IndexExitCode(out.thrown)
  /\ summary' = [printed |-> TRUE, given |-> totalResult.given,
                 errors |-> totalResult.errors,
                 rateLimited |-> totalResult.rateLimited]
  /\ session' = FALSE
  /\ pc' = "exit"
  /\ prim' = "none"
  /\ UNCHANGED mobileVars
  /\ UNCHANGED <<entry, cfg, env, threw, resetDue, failed, nFeeds, feedIdx, remainingKudos, totalResult,
                 maxKudos, result, unfilled, page, target, initialCount, rejStreak, excStreak,
                 exitReason>>

\* giveKudos threw through giveKudosToAllFeeds: catch, finally closeBrowser;
\* the run is not logged
IndexCatch ==
  /\ pc = "thrown"
  /\ entry = "index"
  /\ exitCode' = 1
  /\ session' = FALSE
  /\ pc' = "exit"
  /\ prim' = "none"
  /\ UNCHANGED mobileVars
  /\ UNCHANGED <<entry, cfg, env, logVars, threw, summary, resetDue, failed, nFeeds, feedIdx, remainingKudos, totalResult,
                 maxKudos, result, unfilled, page, target, initialCount, rejStreak, excStreak,
                 exitReason, browserResult>>

NextIndex ==
  \/ IndexStart
  \/ IndexLaunchThrows
  \/ IndexBrowserReturned
  \/ IndexCatch

\* runs.json as a run of index.ts can find it
InitIndexLogVars ==
  /\ logFile \in {NoFile, Unparseable, NotArray, ArrayFile(<< >>)}
                   \cup { ArrayFile(<< WithDailyTotal(WithNotes(lg, 1),
                                                       IF lg.dryRun THEN 0 ELSE lg.kudosGiven) >>) :
                            lg \in {l \in RunLogs : l.timestamp.offset = 0
                                                     /\ l.timestamp.hour = 0} }
  /\ logs = << >>
  /\ log = [kudosGiven |-> 0]
  /\ dailyTotal = 0

\* ======================================================== specifications
\* the configuration of accept-follows.ts: DRY_RUN only
loadFollowsConfig ==
  { [maxKudosPerRun |-> Infinity, dryRun |-> d, mobileOnly |-> FALSE,
     skipMobile |-> FALSE] : d \in BOOLEAN }

\* giveKudosToAllFeeds called directly, on feeds with many unfilled elements
InitBrowser ==
  /\ entry = "giveKudosToAllFeeds"
  /\ cfg \in {c \in loadConfig("large") : ~c.mobileOnly /\ c.skipMobile}
  /\ env = World("large")
  /\ pc = "feeds"
  /\ prim = "none"
  /\ exitCode = 0
  /\ InitBrowserVars
  /\ InitMobileVars
  /\ NoLogVars

SpecBrowser == InitBrowser /\ [][NextBrowser]_vars

\* the browser functions run to completion: every await of the loop settles,
\* the polling loop is bounded by maxWaitMs
SpecBrowserFair == SpecBrowser /\ WF_vars(NextBrowser)

\* the two scripts, index.ts and accept-follows.ts, in the small world
Init ==
  /\ entry \in {"main", "accept-follows"}
  /\ cfg \in IF entry = "main" THEN loadConfig("small") ELSE loadFollowsConfig
  /\ env = World("small")
  /\ pc = IF entry = "main" THEN "main" ELSE "f_main"
  /\ prim = "none"
  /\ exitCode = 0
  /\ InitBrowserVars
  /\ InitMobileVars
  /\ NoLogVars

Next == NextMain \/ NextBrowser \/ NextFollows \/ NextMobile

Spec == Init /\ [][Next]_vars

\* giveKudosMobile called directly
InitMobile ==
  /\ entry = "giveKudosMobile"
  /\ cfg \in {c \in loadConfig("small") : c.mobileOnly /\ ~c.skipMobile}
  /\ env = World("mobile")
  /\ pc = "m_start"
  /\ prim = "none"
  /\ exitCode = 0
  /\ InitBrowserVars
  /\ nFeeds = 1
  /\ InitMobileVars
  /\ NoLogVars

SpecMobile == InitMobile /\ [][NextMobile]_vars

\* what a dry run of giveKudosMobile can do: no tap, no verification, no
\* rate limit
NextMobileDryRun ==
  \/ MobileSetupFails
  \/ MobileSetup
  \/ MobileReturn
  \/ ClubAlreadyProcessed
  \/ ClubEnterFails
  \/ ClubEnter
  \/ FallbackReturn
  \/ ClubAfterFeed
  \/ FeedLoopExit
  \/ FeedDumpFails
  \/ FeedPostDetail
  \/ EscapeReturns
  \/ FeedNoButtons
  \/ FeedButtons
  \/ TapLoopEnd
  \/ TapDryRun
  \/ VerifySkipped

\* giveKudosMobile called directly on an account whose clubs do not change
InitShuffle ==
  /\ entry = "giveKudosMobile"
  /\ cfg \in {c \in loadConfig("small") : c.mobileOnly /\ ~c.skipMobile}
  /\ env = World("shuffle")
  /\ pc = "m_start"
  /\ prim = "none"
  /\ exitCode = 0
  /\ InitBrowserVars
  /\ nFeeds = 1
  /\ InitMobileVars
  /\ NoLogVars

SpecShuffle == InitShuffle /\ [][NextMobile]_vars

\* giveKudosMobile called directly on a device whose snapshots keep failing
InitStuck ==
  /\ entry = "giveKudosMobile"
  /\ cfg \in {c \in loadConfig("small") : c.mobileOnly /\ ~c.skipMobile}
  /\ env = World("stuck")
  /\ pc = "m_start"
  /\ prim = "none"
  /\ exitCode = 0
  /\ InitBrowserVars
  /\ nFeeds = 1
  /\ InitMobileVars
  /\ NoLogVars

SpecStuck == InitStuck /\ [][NextMobile]_vars

\* giveKudosMobile called directly on a device that can stay on a post
\* detail page
InitDetail ==
  /\ entry = "giveKudosMobile"
  /\ cfg \in {c \in loadConfig("small") : c.mobileOnly /\ ~c.skipMobile}
  /\ env = World("detail")
  /\ pc = "m_start"
  /\ prim = "none"
  /\ exitCode = 0
  /\ InitBrowserVars
  /\ nFeeds = 1
  /\ InitMobileVars
  /\ NoLogVars

\* the event loop runs every continuation that is ready
SpecDetailFair == InitDetail /\ [][NextMobile]_vars /\ WF_vars(NextMobile)

\* giveKudosMobile called directly for a dry run over a long clubs list
InitSession ==
  /\ entry = "giveKudosMobile"
  /\ cfg \in {c \in loadConfig("small") : c.mobileOnly /\ ~c.skipMobile /\ c.dryRun}
  /\ env = World("session")
  /\ pc = "m_start"
  /\ prim = "none"
  /\ exitCode = 0
  /\ InitBrowserVars
  /\ nFeeds = 1
  /\ InitMobileVars
  /\ NoLogVars

SpecSession == InitSession /\ [][NextMobileDryRun]_vars

\* giveKudosMobile called directly for a dry run over a long clubs list whose
\* feeds are fresh
InitFresh ==
  /\ entry = "giveKudosMobile"
  /\ cfg \in [maxKudosPerRun : Caps("small") \cup {KUDOS_PER_SESSION},
              dryRun : {TRUE}, mobileOnly : {TRUE}, skipMobile : {FALSE}]
  /\ env = World("fresh")
  /\ pc = "m_start"
  /\ prim = "none"
  /\ exitCode = 0
  /\ InitBrowserVars
  /\ nFeeds = 1
  /\ InitMobileVars
  /\ NoLogVars

\* with several buttons on a screen the cap can be met inside a batch
NextFresh == NextMobileDryRun \/ TapCapBreak

SpecFresh == InitFresh /\ [][NextFresh]_vars

\* the event loop runs every continuation that is ready: the run never stops
\* while a step of it can be taken
SpecFreshFair == SpecFresh /\ WF_vars(NextFresh)

\* giveKudosMobile called directly, not a dry run, on an emulator whose taps
\* can fail TAP_ERRORS_THRESHOLD times
InitTaps ==
  /\ entry = "giveKudosMobile"
  /\ cfg \in {c \in loadConfig("small") : c.mobileOnly /\ ~c.skipMobile}
  /\ env = World("taps")
  /\ pc = "m_start"
  /\ prim = "none"
  /\ exitCode = 0
  /\ InitBrowserVars
  /\ nFeeds = 1
  /\ InitMobileVars
  /\ NoLogVars

SpecTaps == InitTaps /\ [][NextMobile]_vars

\* appendRunLog called again and again
InitLog ==
  /\ entry = "appendRunLog"
  /\ cfg \in {c \in loadFollowsConfig : ~c.dryRun}
  /\ env = World("small")
  /\ pc = "log"
  /\ prim = "none"
  /\ exitCode = 0
  /\ InitBrowserVars
  /\ nFeeds = 1
  /\ InitMobileVars
  /\ InitLogVars

SpecLog == InitLog /\ [][NextLog]_vars

\* appendRunLog called again and again, the backfill script run in between
SpecBackfill == InitLog /\ [][NextLog \/ Backfill]_vars

\* index.ts: the browser surface followed by the run log
InitIndex ==
  /\ entry = "index"
  /\ cfg \in {c \in loadConfig("small") : ~c.mobileOnly /\ c.skipMobile}
  /\ env = World("small")
  /\ pc = "i_main"
  /\ prim = "none"
  /\ exitCode = 0
  /\ InitBrowserVars
  /\ InitMobileVars
  /\ InitIndexLogVars

SpecIndex == InitIndex /\ [][NextIndex \/ NextBrowser]_vars

\* ================================================================ claims
\* the three action primitives: the kudos click, the Accept click, the tap
RealPrimitives == {"click", "accept", "tap"}

\* giveKudos is running, or has just returned, in a non-dry run in which no
\* click threw since the last success and navigation did not lose the
\* connection: the outcomes so far are successes and silent rejections
InRejectionRun ==
  /\ pc \in {"loop", "ret"}
  /\ ~cfg.dryRun
  /\ excStreak = 0
  /\ exitReason # "connectionClosed"

\* C1: in the browser loop fed successes and silent rejections, the counter
\* equals the number of rejections since the last success (a success resets
\* it to 0), rateLimited is set and the loop left exactly when that number is
\* three, and with one or two rejections the loop is not left for them
C1_ThreeRejections ==
  InRejectionRun =>
    /\ result.errors = rejStreak
    /\ rejStreak <= ERROR_THRESHOLD
    /\ result.rateLimited <=> (rejStreak = ERROR_THRESHOLD)
    /\ result.rateLimited => (pc = "ret" /\ exitReason = "rateLimited")
    /\ (rejStreak < ERROR_THRESHOLD) => exitReason \notin {"rateLimited", "errors"}

\* scenario B: a success, then three rejections in a row
C1_Witness ==
  /\ InRejectionRun
  /\ result.given >= 1
  /\ rejStreak = ERROR_THRESHOLD
  /\ result.rateLimited
  /\ pc = "ret"

\* the positions the for-loop over the screen's buttons got to before it
\* ended or broke: the just-tapped elements
JustTapped == { posKey(buttons[i]) : i \in 1 .. btnIdx - 1 }

\* the positions the verification snapshot reports still unfilled
UnfilledPositions == { posKey(stillUnfilled[j]) : j \in 1 .. Len(stillUnfilled) }

\* M: how many of the just-tapped elements are still unfilled
M == Cardinality(JustTapped \cap UnfilledPositions)

\* C2: a reconciliation that finds M of the just-tapped elements still
\* unfilled takes exactly M from state.given and, when M > 0, adds exactly M
\* to consecutiveFailedTaps
C2_ReconcileByM ==
  [][pc = "m_reconcile" =>
       /\ state'.given = state.given - M
       /\ M > 0 => state'.consecutiveFailedTaps = state.consecutiveFailedTaps + M]_vars

\* the rate-limit state machine fed the outcomes of the first i just-tapped
\* elements in tap order, from streak s: a position still unfilled is a
\* failure, any other a confirmed success
RECURSIVE MachineStreak(_, _)
MachineStreak(s, i) ==
  IF i = 0 THEN s
  ELSE IF posKey(buttons[i]) \in UnfilledPositions
         THEN MachineStreak(s, i - 1) + 1
         ELSE 0

\* C3: when every button of the screen was tapped, reconciliation leaves the
\* streak the state machine would have: zero at every confirmed success, one
\* more at every failure; and it declares the rate limit only when that
\* streak has reached three
C3_StreakAsStateMachine ==
  [][(pc = "m_reconcile" /\ btnIdx - 1 = Len(buttons)) =>
       /\ state'.consecutiveFailedTaps =
            MachineStreak(state.consecutiveFailedTaps, btnIdx - 1)
       /\ state'.rateLimited =>
            \E i \in 1 .. btnIdx - 1 :
              MachineStreak(state.consecutiveFailedTaps, i) >= FAILED_TAPS_THRESHOLD]_vars

\* C4: the given-count of the browser loop and of the mobile loop is never
\* negative
C4_GivenNonNegative ==
  /\ state.given >= 0
  /\ mobileResult.given >= 0
  /\ pc \in {"goto", "loop", "ret"} => result.given >= 0
  /\ totalResult.given >= 0
  /\ browserResult.given >= 0

\* the cumulative given-count of a run of main: the clubs the browser surface
\* finished, the club it is in, and the mobile surface
Cumulative ==
  browserResult.given + totalResult.given
    + (IF pc \in {"goto", "loop", "ret"} THEN result.given ELSE 0)
    + state.given

\* a run of main with MAX_KUDOS_PER_RUN configured
Capped == entry = "main" /\ cfg.maxKudosPerRun # Infinity

\* C5: with MAX_KUDOS_PER_RUN = N the cumulative given-count never exceeds N;
\* giveKudos, giveKudosMobile and every feed loop are invoked with N minus
\* what was given before; no step invokes an action primitive when the
\* cumulative count has reached N
C5_PerRunCap ==
  [][Capped =>
       /\ Cumulative' <= cfg.maxKudosPerRun
       /\ prim' \in RealPrimitives => Cumulative < cfg.maxKudosPerRun
       /\ (pc = "feeds" /\ pc' = "goto") =>
            maxKudos' = cfg.maxKudosPerRun - totalResult.given
       /\ pc' = "m_start" => maxKudos' = cfg.maxKudosPerRun - browserResult.given
       /\ (pc \in {"m_start", "m_clubs"} /\ pc' = "m_loop") =>
            maxKudos' - state'.given = cfg.maxKudosPerRun - Cumulative']_vars

\* both surfaces gave kudos and together they reached the cap
C5_Witness ==
  /\ Capped
  /\ browserResult.given >= 1
  /\ state.given >= 1
  /\ Cumulative = cfg.maxKudosPerRun

C7_DryRunNoPrimitive == cfg.dryRun => prim \notin RealPrimitives

\* a dry run that counted on the browser surface and on the mobile surface
C7_Witness ==
  /\ cfg.dryRun
  /\ entry = "main"
  /\ browserResult.given >= 1
  /\ state.given >= 1

\* a dry run of giveKudos that got to its loop has returned
DryRunReturned ==
  /\ cfg.dryRun
  /\ pc = "ret"
  /\ exitReason \notin {"connectionClosed", "navTimeout"}

\* C8 as stated: a dry run of giveKudos on a backlog of n unfilled elements
\* returns given = n
C8_DryRunGivesBacklog == DryRunReturned => result.given = initialCount

Min(a, b) == IF a <= b THEN a ELSE b

\* the smaller of the count n and the budget m
CapMin(n, m) == IF m = Infinity THEN n ELSE Min(n, m)

\* C8, amended: a dry run of giveKudos on a backlog of n unfilled elements
\* with budget maxKudos returns given = min(n, maxKudos, MAX_KUDOS_PER_CLUB),
\* no errors, no rate limit, and leaves the backlog at n, so that a second
\* run with the same budget returns the same count
C8_DryRunAmended ==
  DryRunReturned =>
    /\ result.given = Min(CapMin(initialCount, maxKudos), MAX_KUDOS_PER_CLUB)
    /\ unfilled = initialCount
    /\ result.errors = 0
    /\ ~result.rateLimited

\* a dry run stopped by its budget below the backlog
C8_Witness ==
  /\ DryRunReturned
  /\ exitReason = "maxKudos"
  /\ result.given < initialCount

\* the UTC calendar day a timestamp lies in
UTCDay(ts) == (24 * ts.date + ts.hour - ts.offset) \div 24

\* the sum of kudosGiven over the records of lgs at the indices in S
RECURSIVE SumGiven(_, _)
SumGiven(lgs, S) ==
  IF S = {} THEN 0
  ELSE LET i == CHOOSE j \in S : TRUE
       IN lgs[i].kudosGiven + SumGiven(lgs, S \ {i})

\* the records at index <= i that are no dry runs and lie in the UTC day of
\* record i
SameDayRuns(lgs, i) ==
  { j \in 1 .. i : ~lgs[j].dryRun /\ UTCDay(lgs[j].timestamp) = UTCDay(lgs[i].timestamp) }

\* C9: after appendRunLog the new record is the last of the array, and its
\* dailyTotal (also the value returned) is the sum of kudosGiven over the
\* records at index <= its own that are no dry runs and lie in its UTC day
C9_DailyTotal ==
  Len(logs) > 0 =>
    /\ logs[Len(logs)] = log
    /\ log.dailyTotal = SumGiven(logs, SameDayRuns(logs, Len(logs)))
    /\ dailyTotal = log.dailyTotal

\* two runs written with different calendar dates that lie in one UTC day:
\* the total of the second counts both
C9_Witness ==
  /\ Len(logs) = 2
  /\ logs[1].timestamp.date # log.timestamp.date
  /\ UTCDay(logs[1].timestamp) = UTCDay(log.timestamp)
  /\ ~logs[1].dryRun
  /\ ~log.dryRun
  /\ dailyTotal = logs[1].kudosGiven + log.kudosGiven

\* the history runs.json holds
History(file) == IF file.kind = "array" THEN file.logs ELSE << >>

\* lgs is prev with one record added at the end
OneMore(prev, lgs) ==
  /\ Len(lgs) = Len(prev) + 1
  /\ \A i \in 1 .. Len(prev) : lgs[i] = prev[i]

\* C10 as stated: every appendRunLog leaves the earlier records as they were
\* and the persisted history is the previous history plus one new last record
C10_AppendOnly ==
  [][pc = "log" => OneMore(History(logFile), History(logFile'))]_vars

\* C10, amended: appendRunLog builds the previous history plus one new last
\* record; when its write succeeds that is the persisted history, the earlier
\* records unchanged and every record's dailyTotal the prefix sum of its day;
\* when its write fails (the error is logged, not thrown) the file is as it
\* was or unreadable, and the next call starts a new history from a file it
\* cannot read as an array
C10_AppendAmended ==
  [][pc = "log" =>
       /\ OneMore(History(logFile), logs')
       /\ \/ logFile' = ArrayFile(logs')
          \/ logFile' = logFile
          \/ logFile' = Unparseable
       /\ \A i \in 1 .. Len(History(logFile')) :
            History(logFile')[i].dailyTotal =
              SumGiven(History(logFile'), SameDayRuns(History(logFile'), i))]_vars

\* two runs of the same UTC day were appended and persisted: the first keeps
\* its dailyTotal
C10_Witness ==
  /\ logFile = ArrayFile(logs)
  /\ Len(logs) = 2
  /\ ~logs[1].dryRun
  /\ ~logs[2].dryRun
  /\ UTCDay(logs[1].timestamp) = UTCDay(logs[2].timestamp)
  /\ logs[1].dailyTotal = logs[1].kudosGiven
  /\ logs[2].dailyTotal = logs[1].kudosGiven + logs[2].kudosGiven

\* C11: a failure to read, parse or write runs.json never aborts the run:
\* whatever the file is and whether or not the write succeeds, the step of
\* main that logs the run returns with the daily total computed from what
\* was read plus this run, and sets the exit status from the result's errors
\* alone
C11_LogFailureHarmless ==
  [][(pc = "feeds_done" /\ entry = "index")
       => /\ pc' = "exit"
          /\ exitCode' = (IF totalResult.errors > 0 THEN 1 ELSE 0)
          /\ browserResult' = [given |-> totalResult.given,
                               errors |-> totalResult.errors,
                               rateLimited |-> totalResult.rateLimited]
          /\ Len(logs') = Len(ReadLogs(logFile)) + 1
          /\ dailyTotal' = getDailyTotal(logs', Len(logs'))
          /\ log'.kudosGiven = totalResult.given]_vars

\* a run without errors has ended with exit status 0 although runs.json
\* could not be written: the file does not hold the record of the run
C11_Witness ==
  /\ entry = "index"
  /\ pc = "exit"
  /\ Len(logs) >= 1
  /\ logFile # ArrayFile(logs)
  /\ browserResult.errors = 0
  /\ browserResult.given > 0
  /\ dailyTotal >= browserResult.given
  /\ ~cfg.dryRun
  /\ exitCode = 0

\* C12: the processed-position set is empty whenever giveKudosOnCurrentFeed
\* is entered for a club, and empty when the club loop resumes after the
\* feed of a club returned, be it through goBack, a recovery of the clubs
\* list or a restart of the emulator
C12_ProcessedEmptyAtSwitch ==
  [][/\ (pc = "m_clubs" /\ pc' = "m_loop") => state'.processedPositions = {}
     /\ (pc = "m_feed_ret" /\ inClub /\ pc' = "m_clubs")
          => state'.processedPositions = {}]_vars

\* the emulator was restarted after a session of KUDOS_PER_SESSION kudos and
\* the first club of the re-fetched list is entered
C12_Witness ==
  /\ pc = "m_loop"
  /\ inClub
  /\ state.given = KUDOS_PER_SESSION
  /\ clubIndex = 0
  /\ Cardinality(processedClubs) = 1
  /\ state.processedPositions = {}

\* C13: position keys are invalidated whenever the content shifts: every
\* snapshot of the batched loop is taken after a scroll, a club switch or a
\* navigation, so at the head of the loop, where the next snapshot is
\* filtered, no position key recorded earlier is left in the set
C13_KeysClearedOnScroll ==
  pc = "m_loop" => state.processedPositions = {}

\* the rate-limit flag of the browser surface: in the loop's result, in the
\* totals of giveKudosToAllFeeds, or in main's browserResult
BrowserRateLimited ==
  result.rateLimited \/ totalResult.rateLimited \/ browserResult.rateLimited

\* C14: RATE_LIMITED is terminal for a surface: once the flag of a surface is
\* set it stays set, no further action primitive of that surface is invoked
\* (no click in the browser, no tap on the emulator) and no further club is
\* opened on it (no giveKudos call, no return to the feed or club loop)
C14_RateLimitedTerminal ==
  [][entry = "main"
       => /\ BrowserRateLimited
               => /\ BrowserRateLimited'
                  /\ prim' # "click"
                  /\ pc' \notin {"goto", "loop"}
          /\ state.rateLimited
               => /\ state'.rateLimited
                  /\ prim' # "tap"
                  /\ pc' \notin {"m_clubs", "m_loop", "m_tap"}]_vars

\* three silent rejections set the flag in the first of two clubs:
\* giveKudosToAllFeeds has stopped with the second club unopened
C14_Witness ==
  /\ entry = "main"
  /\ pc = "feeds_done"
  /\ totalResult.rateLimited
  /\ totalResult.errors >= ERROR_THRESHOLD
  /\ exitReason = "rateLimited"
  /\ feedIdx < nFeeds
  /\ ~LEqZero(remainingKudos)

\* where control is while the browser surface runs
BrowserPcs == {"feeds", "goto", "loop", "ret", "feeds_done", "thrown"}

\* where control is while the mobile surface runs
MobilePcs == {"m_start", "m_clubs", "m_loop", "m_escape", "m_tap", "m_verify",
              "m_unverified", "m_reconcile", "m_feed_ret", "m_done"}

\* the mobile surface is attempted: giveKudosMobile is called, or the
\* availability check and the emulator start failed
MobileAttempted == pc' = "m_start" \/ faultsLeft' # faultsLeft

\* C15: surface handoff: the browser surface runs if and only if MOBILE_ONLY
\* is false; the browser result says rate limited exactly when the last loop
\* ended by the rejection threshold or a closed connection; the mobile
\* surface is attempted if and only if MOBILE_ONLY is true, or that result
\* is rate limited and SKIP_MOBILE is false; so a browser run that ends by
\* cap or exhaustion never leads to the mobile surface
C15_SurfaceHandoff ==
  [][entry = "main"
       => /\ pc = "main"
               => IF cfg.mobileOnly THEN pc' = "main_mobile" /\ ~session'
                                    ELSE pc' \in {"feeds", "exit"}
          /\ pc' \in BrowserPcs => ~cfg.mobileOnly
          /\ pc = "feeds_done"
               => browserResult'.rateLimited
                    = (exitReason \in {"rateLimited", "connectionClosed"})
          /\ pc = "main_mobile"
               => (MobileAttempted
                     <=> (cfg.mobileOnly
                            \/ (browserResult.rateLimited /\ ~cfg.skipMobile)))
          /\ pc' \in MobilePcs
               => (cfg.mobileOnly \/ (browserResult.rateLimited /\ ~cfg.skipMobile))]_vars

\* the browser surface ended rate limited after giving kudos, SKIP_MOBILE is
\* false, and giveKudosMobile is about to start with the rest of the budget
C15_Witness ==
  /\ entry = "main"
  /\ pc = "m_start"
  /\ ~cfg.mobileOnly
  /\ ~cfg.skipMobile
  /\ browserResult.rateLimited
  /\ browserResult.given > 0
  /\ ~session

\* C16: the two surfaces never act concurrently: while the mobile surface
\* is checked for, started or running the browser session is closed, no
\* browser primitive is invoked and control never returns to the browser
\* surface; and no tap happens while a browser session is open
C16_SurfacesSequential ==
  [][entry = "main"
       => /\ pc' \in MobilePcs \cup {"main_mobile"}
               => /\ ~session'
                  /\ prim' \notin {"click", "dismissBanner"}
          /\ pc \in MobilePcs \cup {"main_mobile"}
               => pc' \notin BrowserPcs \cup {"main"}
          /\ prim' = "tap" => ~session'
          /\ session' => pc' \in BrowserPcs]_vars

\* a tap on the emulator after the browser surface gave kudos, ended rate
\* limited and closed its session
C16_Witness ==
  /\ entry = "main"
  /\ prim = "tap"
  /\ pc \in MobilePcs
  /\ browserResult.given > 0
  /\ browserResult.rateLimited
  /\ ~session

\* C17: browser surface escalation: once three consecutive clicks of
\* giveKudos have thrown, the browser surface is aborted: no further click is
\* attempted and giveKudos is not called for a further club
C17_BrowserErrorsAbortSurface ==
  [][(entry = "main" /\ excStreak >= ERROR_THRESHOLD)
       => /\ prim' # "click"
          /\ pc' \notin {"goto", "loop"}]_vars

\* C18: mobile surface escalation: once TAP_ERRORS_THRESHOLD taps in a row
\* have failed, the mobile surface is aborted: no further tap is issued and
\* control does not return to the batch, to the feed loop (later screens) or
\* to the club loop (later clubs)
C18_TapErrorsAbortSurface ==
  [][state.consecutiveTapErrors >= TAP_ERRORS_THRESHOLD
       => /\ prim' # "tap"
          /\ pc' \notin {"m_tap", "m_loop", "m_clubs"}]_vars

\* C19: thrown errors and silent rejections are counted separately in the
\* synchronous loop: the loop ends rate limited only after three silent
\* rejections in a row, and ends by the error threshold only after three
\* thrown errors in a row
C19_SeparateCounters ==
  /\ exitReason = "rateLimited" => rejStreak >= ERROR_THRESHOLD
  /\ exitReason = "errors" => excStreak >= ERROR_THRESHOLD

\* C20: process exit contract: when main reaches its summary (nothing fatal
\* was thrown), it sets a non-zero exit status if and only if a primitive
\* failed with an error during the run (a kudos click or a tap threw, the
\* emulator or the app could not be started): rejections and a rate-limit
\* stop alone leave the status 0, an error followed by later successes
\* does not
C20_ExitStatusIffPrimitiveError ==
  [][(entry = "main" /\ pc = "summary") => ((exitCode' # 0) <=> threw)]_vars

\* C21: a run that stops because of rate limiting completes normally: the
\* counts of a club or feed that ended rate limited are added to the
\* surface's result, the surface's result reaches main, and when main has
\* ended with one or both surfaces rate limited it has printed the summary,
\* with given = browser given + mobile given and errors = browser errors +
\* mobile errors
C21_RateLimitedCompletes ==
  [][/\ (pc = "ret" /\ result.rateLimited)
          => /\ totalResult'.given = totalResult.given + result.given
             /\ totalResult'.errors = totalResult.errors + result.errors
             /\ totalResult'.rateLimited
             /\ pc' = "feeds_done"
     /\ (entry = "main" /\ pc = "feeds_done" /\ totalResult.rateLimited)
          => /\ browserResult'.given = totalResult.given
             /\ browserResult'.errors = totalResult.errors
             /\ browserResult'.rateLimited
             /\ pc' = "main_mobile"
     /\ (entry = "main" /\ pc = "m_feed_ret" /\ inClub /\ state.rateLimited)
          => /\ mobileResult'.given = state.given
             /\ mobileResult'.errors = state.errors
             /\ mobileResult'.rateLimited
             /\ pc' = "m_done"
     /\ (entry = "main" /\ pc' = "exit"
           /\ (browserResult'.rateLimited \/ mobileResult'.rateLimited))
          => /\ summary'.printed
             /\ summary'.given = browserResult'.given + mobileResult'.given
             /\ summary'.errors = browserResult'.errors + mobileResult'.errors]_vars

\* main has ended after both surfaces ended rate limited, each with a count
\* to report
C21_Witness ==
  /\ entry = "main"
  /\ pc = "exit"
  /\ summary.printed
  /\ browserResult.rateLimited /\ browserResult.given > 0
  /\ mobileResult.rateLimited
  /\ mobileResult.given # 0 \/ mobileResult.errors # 0

\* C22: environment reset cadence: once the mobile count has reached a
\* multiple of KUDOS_PER_SESSION, the emulator is restarted before any
\* further button is acted on (tapped, or counted in a dry run), so that at
\* most KUDOS_PER_SESSION successes lie between two consecutive restarts
C22_ResetBeforeNextTap ==
  [][resetDue => ~(CanTap /\ btnIdx' = btnIdx + 1)]_vars

\* C23: the mobile surface always terminates, for every per-run cap (small,
\* a multiple of KUDOS_PER_SESSION, unlimited): giveKudosMobile returns
\* after finitely many emulator restarts and passes over the clubs
C23_MobileTerminates == <>(pc = "m_done")

\* C24: emulator unavailable. In fallback mode (not mobile-only) a missing
\* emulator is not fatal: whether main finds none or giveKudosMobile cannot
\* start one, the mobile surface contributes given = 0, nothing is thrown,
\* and main prints its summary with the browser's count. Only in mobile-only
\* mode does main end with a fatal error instead of a summary
C24_EmulatorUnavailable ==
  [][/\ (entry = "main" /\ pc = "main_mobile" /\ shouldRunMobile /\ pc' # "m_start")
          => IF cfg.mobileOnly
               THEN pc' = "exit" /\ exitCode' = 1 /\ ~summary'.printed
               ELSE /\ pc' = "summary"
                    /\ mobileResult' = ZeroSurface
                    /\ browserResult' = browserResult
                    /\ exitCode' = exitCode
     /\ (entry = "main" /\ pc = "m_start" /\ pc' = "m_done")
          => mobileResult'.given = 0 /\ browserResult' = browserResult
     /\ (entry = "main" /\ pc = "m_done") => pc' = "summary"
     /\ (entry = "main" /\ pc = "summary" /\ mobileResult.given = 0)
          => /\ summary'.printed
             /\ summary'.given = browserResult.given
             /\ pc' = "exit"]_vars

\* a fallback run has ended with its summary: the browser gave kudos and was
\* rate limited, and the mobile surface never got set up
C24_Witness ==
  /\ entry = "main"
  /\ pc = "exit"
  /\ ~cfg.mobileOnly /\ ~cfg.skipMobile
  /\ browserResult.rateLimited /\ browserResult.given > 0
  /\ faultsLeft < env.faults
  /\ state = ZeroState /\ clubNames = << >> /\ mobileResult.given = 0
  /\ summary.printed /\ summary.given = browserResult.given

\* C25: authentication failure is fatal for the run: once giveKudos has
\* thrown on the login page, no further kudos click is made on the current
\* or on a later club, the mobile surface is not started, no summary is
\* printed, and main ends with a non-zero exit status
C25_LoginFailureFatal ==
  [][(entry = "main" /\ exitReason' = "thrown")
       => /\ prim' \notin {"click", "tap"}
          /\ pc' \in {"thrown", "exit"}
          /\ pc = "thrown" => pc' = "exit"
          /\ pc' = "exit" => exitCode' # 0
          /\ state' = ZeroState /\ mobileResult' = ZeroSurface
          /\ ~summary'.printed]_vars

\* main has ended by the catch block after the login page came up on the
\* second club, the first one having received kudos
C25_Witness ==
  /\ entry = "main"
  /\ pc = "exit"
  /\ exitReason = "thrown"
  /\ feedIdx = 2
  /\ totalResult.given > 0
  /\ exitCode = 1

\* C26: acceptFollowRequests (not a dry run) stops after ERROR_THRESHOLD
\* failures in a row, a failure being a click that left the count unchanged
\* or a click that threw, with no success between them; a success resets
\* the counter to 0; otherwise the loop goes on until no Accept button
\* remains
C26_ThreeFailuresStop ==
  [][(entry = "accept-follows" /\ ~cfg.dryRun)
       => /\ result'.errors = rejStreak' + excStreak'
          /\ result.errors >= ERROR_THRESHOLD => prim' # "accept" /\ pc' # "f_loop"
          /\ (pc = "f_loop" /\ result'.accepted > result.accepted)
               => result'.errors = 0
          /\ (pc = "f_loop" /\ pc' = "f_ret")
               => result'.errors >= ERROR_THRESHOLD \/ unfilled = 0
          /\ (pc = "f_loop" /\ unfilled > 0 /\ result'.errors < ERROR_THRESHOLD)
               => pc' \in {"f_loop", "f_thrown"}]_vars

\* the loop stopped on the third failure in a row, of both kinds, after a
\* success, with a request still pending
C26_Witness ==
  /\ entry = "accept-follows"
  /\ ~cfg.dryRun
  /\ pc = "f_ret"
  /\ result.errors = ERROR_THRESHOLD
  /\ result.accepted > 0
  /\ rejStreak > 0 /\ excStreak > 0
  /\ unfilled > 0

\* C27: every enumerated club is processed on the mobile surface: when
\* giveKudosMobile returns after a session without rate limit, emulator
\* restart, collaborator failure or lost clubs list, every club name of the
\* clubs list has been entered, whatever the shuffles were
C27_EveryClubEntered ==
  (/\ pc = "m_done"
   /\ inClub
   /\ ~state.rateLimited
   /\ state.given < KUDOS_PER_SESSION
   /\ faultsLeft = env.faults
   /\ clubNames # << >>)
    => \A i \in 1 .. Len(clubNames) : clubNames[i] \in processedClubs

\* C28: the synchronous loop with n unfilled elements, every click succeeding
\* and n not above the per-run budget and the per-club limit: every click
\* adds one to given and takes one unfilled element away, and giveKudos
\* returns after exactly n clicks with given = n, errors = 0, rateLimited =
\* false and no unfilled element left; the loop ends as exhausted exactly
\* when an iteration's fresh count of unfilled elements is 0
C28_AllSucceed ==
  [][(pc = "loop" /\ ~cfg.dryRun)
       => /\ (prim' = "click" /\ ~failed /\ rejStreak' = 0 /\ excStreak' = 0)
               => /\ result'.given = result.given + 1
                  /\ unfilled' = unfilled - 1
                  /\ result'.given + unfilled' = initialCount
          /\ (pc' = "ret" /\ ~failed /\ prim' # "click"
                /\ ~GreaterThan(initialCount, maxKudos)
                /\ initialCount <= MAX_KUDOS_PER_CLUB)
               => /\ result'.given = initialCount
                  /\ result'.errors = 0
                  /\ ~result'.rateLimited
                  /\ unfilled' = 0
          /\ (exitReason' = "exhausted") <=> (CanAct /\ unfilled = 0)]_vars

\* giveKudos returned as exhausted after MAX_KUDOS_PER_CLUB - 1 clicks on as
\* many unfilled elements, none of which failed
C28_Witness ==
  /\ ~cfg.dryRun
  /\ pc = "ret"
  /\ exitReason = "exhausted"
  /\ initialCount = MAX_KUDOS_PER_CLUB - 1
  /\ result.given = initialCount
  /\ unfilled = 0
  /\ ~threw
  /\ feedIdx = 1

\* C29: the batched loop abandons the club, without setting rateLimited,
\* at the maxDumpFailures-th failed snapshot in a row or at the
\* maxNoNewButtons-th screen in a row without a new button, and not before;
\* a successful snapshot resets the count of failed snapshots to 0, a screen
\* with a new button resets the count of empty screens to 0; after the
\* abandonment giveKudosMobile goes on with its club loop unless the clubs
\* list is lost or an emulator restart is due
C29_AbandonClub ==
  [][/\ (pc = "m_loop" /\ FeedLoopCond)
          => /\ \/ /\ consecutiveDumpFailures' = consecutiveDumpFailures + 1
                   /\ noNewButtonsCount' = noNewButtonsCount
                \/ /\ consecutiveDumpFailures' = 0
                   /\ noNewButtonsCount' \in {0, noNewButtonsCount, noNewButtonsCount + 1}
             /\ pc' = "m_tap" => noNewButtonsCount' = 0 /\ Len(buttons') > 0
             /\ noNewButtonsCount' = noNewButtonsCount + 1
                  => Len(buttons') = 0 /\ consecutiveDumpFailures' = 0
             /\ (pc' = "m_feed_ret")
                  <=> \/ consecutiveDumpFailures' >= maxDumpFailures
                      \/ noNewButtonsCount' >= maxNoNewButtons
             /\ pc' = "m_feed_ret" => state' = state /\ ~state'.rateLimited
     /\ (pc = "m_feed_ret" /\ inClub /\ ~state.rateLimited)
          => \/ pc' = "m_clubs"
             \/ pc' = "m_done" /\ (clubNames' = << >> \/ SessionFull)]_vars

\* the feed of a club was abandoned at the maxDumpFailures-th failed
\* snapshot in a row, after empty screens, without rate limit
C29_Witness ==
  /\ pc = "m_feed_ret"
  /\ inClub
  /\ consecutiveDumpFailures = maxDumpFailures
  /\ noNewButtonsCount > 0
  /\ ~state.rateLimited

\* C30: navigation recovery is bounded: an invocation of the batched loop
\* makes boundedly many recovery rounds on detecting a post detail page, so
\* the loop ends (the club is abandoned) even if the device shows the post
\* detail page after every escape attempt
C30_RecoveryBounded == [](pc = "m_loop" => <>(pc = "m_feed_ret"))

\* C31: reconciliation counts only taps that were optimistically counted:
\* every element the reconciliation takes from given and adds to the failure
\* streak is at a position whose tap was issued and incremented given in
\* this batch; a button skipped because the cap was reached, or whose tap
\* threw, is never counted as a reconciliation failure
C31_ReconcileOnlyCounted ==
  pc = "m_reconcile"
    => \A j \in 1 .. Len(stillUnfilled) : posKey(stillUnfilled[j]) \in counted


C33_FailedResetEnds ==
  [][/\ (pc = "m_feed_ret" /\ inClub /\ SessionFull /\ pc' # "m_clubs")
          => /\ pc' = "m_done"
             /\ state' = state
             /\ mobileResult' = [given |-> state.given, errors |-> state.errors,
                                 rateLimited |-> state.rateLimited]
     /\ (pc = "m_done" /\ resetDue)
          => /\ pc' \notin MobilePcs \ {"m_done"}
             /\ state' = state
             /\ mobileResult' = mobileResult]_vars

\* the surface ended with a full session given and the reset still due (the
\* restart failed) while clubs of the list were not visited yet
C33_Witness ==
  /\ pc = "m_done"
  /\ resetDue
  /\ state.given = KUDOS_PER_SESSION
  /\ mobileResult.given = KUDOS_PER_SESSION
  /\ clubIndex + 1 < Len(clubNames)


\* C34: navigation errors of the browser surface. A connection closed during
\* page.goto makes giveKudos return rateLimited with given 0, and the
\* enumeration of the clubs stops there; a navigation timeout makes it return
\* given 0 and not rateLimited, and the enumeration goes on with the next
\* club; any other navigation error is thrown and ends main with exit code 1
C34_NavigationErrors ==
  [][/\ (pc = "goto" /\ exitReason' = "connectionClosed")
          => /\ pc' = "ret"
             /\ result'.rateLimited
             /\ result'.given = 0
     /\ (pc = "ret" /\ exitReason = "connectionClosed")
          => /\ pc' = "feeds_done"
             /\ totalResult'.rateLimited
             /\ totalResult'.given = totalResult.given
     /\ (pc = "goto" /\ exitReason' = "navTimeout")
          => /\ pc' = "ret"
             /\ ~result'.rateLimited
             /\ result'.given = 0
     /\ (pc = "ret" /\ exitReason = "navTimeout")
          => /\ pc' = "feeds"
             /\ feedIdx' = feedIdx + 1
             /\ totalResult' = totalResult
             /\ remainingKudos' = remainingKudos
     /\ (pc = "goto" /\ exitReason' = "thrown") => pc' = "thrown"
     /\ (pc = "thrown" /\ entry = "main")
          => pc' = "exit" /\ exitCode' = 1]_vars

\* the connection was closed on the navigation to a club that is not the last
\* one: the enumeration has stopped, rate limited, with clubs left unvisited
C34_Witness ==
  /\ pc = "feeds_done"
  /\ exitReason = "connectionClosed"
  /\ feedIdx < nFeeds
  /\ totalResult.rateLimited
  /\ result.given = 0


\* C35: the synchronous browser loop always terminates: giveKudos, once in
\* its loop, returns, whatever the clicks do and whatever the backlog is; it
\* counts at most MAX_KUDOS_PER_CLUB successes, and at the head of every
\* iteration at most two failed attempts (rejections or errors) have been
\* made since the last success or the start of the loop
C35_LoopTerminates ==
  /\ [](pc = "loop" => <>(pc = "ret"))
  /\ [](result.given <= MAX_KUDOS_PER_CLUB)
  /\ [](pc = "loop" => rejStreak + excStreak <= ERROR_THRESHOLD - 1)
  /\ [](rejStreak + excStreak <= ERROR_THRESHOLD)

\* giveKudos returned at the per-club limit after a rejection and an error in
\* a row had been followed by a success
C35_Witness ==
  /\ pc = "ret"
  /\ exitReason = "clubLimit"
  /\ result.given = MAX_KUDOS_PER_CLUB
  /\ threw
  /\ ~cfg.dryRun


\* C36: the synchronous loop only acts on the first unfilled element of the
\* snapshot it has just taken: no unfilled element that precedes the clicked
\* one is left on the page; after attempts that were all rejected the next
\* click is on the same element again; and the third rejection of the
\* element ends the club with rateLimited, whatever else is unfilled
C36_FirstElementOnly ==
  [][(pc = "loop" /\ prim' = "click")
       => /\ target' \in page
          /\ \A e \in page : target' <= e
          /\ (rejStreak > 0 /\ excStreak = 0) => target' = target
          /\ rejStreak' = ERROR_THRESHOLD
               => /\ pc' = "ret"
                  /\ result'.rateLimited
                  /\ page' = page]_vars

\* the loop has ended rate limited on the second element of the feed, which
\* was rejected three times while later elements stayed unfilled
C36_Witness ==
  /\ pc = "ret"
  /\ exitReason = "rateLimited"
  /\ rejStreak = ERROR_THRESHOLD
  /\ excStreak = 0
  /\ result.given = 1
  /\ target = 2
  /\ Cardinality(page) >= 2


\* C37: within one club and between two clearings of the processed-position
\* set the batched loop never passes the same position key twice: a button
\* the for-loop acts on (tap, tap that throws, dry-run count) is at a position
\* not recorded before, the position is recorded by that step, and no step of
\* giveKudosOnCurrentFeed takes a position out of the set
C37_NoPositionTwice ==
  [][/\ (pc = "m_tap" /\ btnIdx' = btnIdx + 1)
          => /\ posKey(buttons[btnIdx]) \notin state.processedPositions
             /\ posKey(buttons[btnIdx]) \in state'.processedPositions
     /\ (pc \in {"m_loop", "m_escape", "m_tap", "m_verify", "m_unverified",
                 "m_reconcile"})
          => state.processedPositions \subseteq state'.processedPositions]_vars

\* a later batch of the same club starts while the positions of an earlier
\* batch, one whose tap threw and one whose tap was counted, are recorded
C37_Witness ==
  /\ pc = "m_tap"
  /\ btnIdx = 1
  /\ Len(buttons) >= 1
  /\ Cardinality(state.processedPositions) >= 2
  /\ state.errors >= 1
  /\ state.given >= 1


\* C38: when the verification snapshot after a batch fails, the batched loop
\* leaves given, the failure streak and rateLimited as they are, so the
\* optimistic increments of the batch stand, and goes on with the next scroll
\* and the next iteration
C38_VerificationFailureKeeps ==
  [][((pc = "m_verify" /\ pc' = "m_unverified") \/ pc = "m_unverified")
       => /\ state'.given = state.given
          /\ state'.consecutiveFailedTaps = state.consecutiveFailedTaps
          /\ state'.rateLimited = state.rateLimited
          /\ pc = "m_unverified" => pc' = "m_loop"]_vars

\* the verification of a batch with a counted tap failed while the streak of
\* an earlier batch stood at one or more
C38_Witness ==
  /\ pc = "m_unverified"
  /\ counted # {}
  /\ state.consecutiveFailedTaps >= 1
  /\ state.given >= 1
  /\ ~state.rateLimited


\* the mobile surface was wanted but the emulator could not be started:
\* giveKudosMobile was never called
MobileWasUnavailable ==
  /\ shouldRunMobile
  /\ faultsLeft < env.faults
  /\ mobileResult = ZeroSurface
  /\ state = ZeroState
  /\ clubNames = << >>
  /\ processedClubs = {}

\* C39: the rateLimited flag main reports is true exactly when the last
\* surface that executed ended rate limited: the browser surface was rate
\* limited and the mobile surface was skipped, unavailable or rate limited
\* itself, or the run was mobile-only and the mobile surface was rate limited
C39_ReportedRateLimited ==
  (entry = "main" /\ summary.printed)
    => (summary.rateLimited
          <=> \/ /\ browserResult.rateLimited
                 /\ \/ cfg.skipMobile
                    \/ MobileWasUnavailable
                    \/ mobileResult.rateLimited
              \/ cfg.mobileOnly /\ mobileResult.rateLimited)


\* C40: the backfill script and incremental appending agree: on a runs.json
\* written by appendRunLog calls, a run of the backfill that writes the file
\* leaves every record, its dailyTotal included, as it was; and recomputing
\* the backfilled history gives the backfilled history again
C40_BackfillAgrees ==
  [][prim' = "backfill"
       => /\ logFile'.kind = "array" => logFile' = logFile
          /\ backfill(logFile.logs) = logFile.logs
          /\ backfill(backfill(logFile.logs)) = backfill(logFile.logs)]_vars

\* the backfill has run on a history of two runs of different UTC days that
\* are no dry runs, the second appended after the first
C40_Witness ==
  /\ prim = "backfill"
  /\ logFile.kind = "array"
  /\ Len(logFile.logs) = 2
  /\ \A i \in 1 .. 2 : ~logFile.logs[i].dryRun
  /\ UTCDay(logFile.logs[1].timestamp) # UTCDay(logFile.logs[2].timestamp)
  /\ logFile.logs[2].dailyTotal = logFile.logs[2].kudosGiven

====
